---- MODULE Spec2Model ----
(***************************************************************************)
(* Footprint-logger: the analysis cache, the rate limiter and the          *)
(* statistics primitives of utils/analysisHelpers.js.                      *)
(*                                                                         *)
(* Strings are sequences of tokens; concatenation is \o and startsWith is  *)
(* a prefix test on the token sequence.  Wall-clock time (Date.now()) is   *)
(* the variable now, counted in ticks; the cache's 5-minute TTL and its    *)
(* 1000-entry sweep threshold are scaled to TTL ticks and SweepThreshold   *)
(* entries, keeping every comparison operator of the source.               *)
(***************************************************************************)
EXTENDS Integers, Sequences, FiniteSets, TLC

VARIABLES
    userIds,      \* the user-id strings requests may carry
    now,          \* Date.now()
    cache,        \* AnalysisCache.cache, a Map: entries in insertion order
    lastOp,       \* the last cache call and what it returned
    expect,       \* ghost: what the last set stored under (userId, type, params)
    cleared,      \* ghost: users cleared and not written since
    requests,     \* RateLimiter.requests, a Map: userId -> timestamps
    shadow,       \* a second limiter, given the same calls but never cleaned
    lastCall,     \* the last limiter call and what both limiters returned
    log,          \* ghost: per user, the isAllowed calls made so far
    call,         \* one call of a pure helper: its arguments and its result
    collection,   \* db.collection("emissions"): the stored records, in order
    dbUp,         \* whether the document store answers
    served,       \* the last HTTP request and what its handler did with it
    inflight      \* the requests suspended at an await, by request number

cacheVars == <<cache, lastOp, expect, cleared>>

limiterVars == <<requests, shadow, lastCall, log>>

serverVars == <<collection, dbUp, served, inflight>>

vars == <<userIds, now, cacheVars, limiterVars, call, serverVars>>

----------------------------------------------------------------------------
(* Bounds *)

MaxTime == 2

MaxCalls == 4

MaxLimiterTime == 3

----------------------------------------------------------------------------
(* Strings *)

StartsWith(s, prefix) ==
    /\ Len(prefix) <= Len(s)
    /\ SubSeq(s, 1, Len(prefix)) = prefix

\* ObjectId.toString(): hex strings of one fixed length, no separator
AppUserIds == { <<"64a1">>, <<"64b2">> }

\* the analysis types the callers pass
Types == { <<"insights">>, <<"quick", "-", "stats">> }

\* params as the callers pass them: omitted, {} or an options object,
\* an object being the sequence of its properties in insertion order
Undefined == [defined |-> FALSE, props |-> <<>>]

Obj(props) == [defined |-> TRUE, props |-> props]

ParamValues == { Undefined, Obj(<<>>) }

SetParamValues == { p \in ParamValues : p.defined }

Data == { "v1", "v2" }

Null == "null"

RECURSIVE JoinProps(_)
JoinProps(props) ==
    IF props = <<>> THEN <<>>
    ELSE LET p == Head(props)
             one == <<"\"", p[1], "\"", ":", p[2]>>
         IN IF Len(props) = 1 THEN one
            ELSE one \o <<",">> \o JoinProps(Tail(props))

JSONstringify(obj) == <<"{">> \o JoinProps(obj) \o <<"}">>

----------------------------------------------------------------------------
(* AnalysisCache *)

TTL == 1

SweepThreshold == 2

generateKeyNoDefault(userId, type, params) ==
    LET paramString == IF params.defined THEN JSONstringify(params.props)
                       ELSE <<"undefined">>
    IN userId \o <<"-">> \o type \o <<"-">> \o paramString

generateKey(userId, type, params) ==
    LET p == IF params.defined THEN params ELSE Obj(<<>>)
        paramString == JSONstringify(p.props)
    IN userId \o <<"-">> \o type \o <<"-">> \o paramString

\* Map.prototype.get / set / delete on the insertion-ordered entry list
MapHas(m, key) == \E i \in 1..Len(m) : m[i].key = key

MapGet(m, key) == m[CHOOSE i \in 1..Len(m) : m[i].key = key]

MapSet(m, key, data, timestamp) ==
    LET e == [key |-> key, data |-> data, timestamp |-> timestamp]
    IN IF MapHas(m, key)
       THEN [i \in 1..Len(m) |-> IF m[i].key = key THEN e ELSE m[i]]
       ELSE Append(m, e)

RemoveAt(m, i) == SubSeq(m, 1, i - 1) \o SubSeq(m, i + 1, Len(m))

MapDelete(m, key) ==
    IF MapHas(m, key)
    THEN RemoveAt(m, CHOOSE i \in 1..Len(m) : m[i].key = key)
    ELSE m

FreshInclusive(entry, t) == t - entry.timestamp <= TTL

Fresh(entry, t) == t - entry.timestamp < TTL

\* cleanup(): the for-of loop over entries(), deleting while iterating; a
\* Map iterator goes on to the next live entry after a delete
RECURSIVE cleanupFrom(_, _, _)
cleanupFrom(m, i, t) ==
    IF i > Len(m) THEN m
    ELSE IF t - m[i].timestamp > TTL
         THEN cleanupFrom(RemoveAt(m, i), i, t)
         ELSE cleanupFrom(m, i + 1, t)

cleanup(m, t) == cleanupFrom(m, 1, t)

\* an index-based loop that steps past the entry that moved into the hole
RECURSIVE clearFromSkipping(_, _, _)
clearFromSkipping(m, i, userId) ==
    IF i > Len(m) THEN m
    ELSE IF StartsWith(m[i].key, userId)
         THEN clearFromSkipping(RemoveAt(m, i), i + 1, userId)
         ELSE clearFromSkipping(m, i + 1, userId)

\* clear(userId): the for-of loop over keys(), deleting while iterating
RECURSIVE clearFrom(_, _, _)
clearFrom(m, i, userId) ==
    IF i > Len(m) THEN m
    ELSE IF StartsWith(m[i].key, userId)
         THEN clearFrom(RemoveAt(m, i), i, userId)
         ELSE clearFrom(m, i + 1, userId)

\* the triple a call names, with an omitted params read as {}
Triple(userId, type, params) ==
    <<userId, type, IF params.defined THEN params.props ELSE <<>> >>

Triples == { Triple(u, t, p) : u \in userIds, t \in Types, p \in ParamValues }

None == [data |-> Null, at |-> -1]

Get(userId, type, params) ==
    LET key == generateKey(userId, type, params)
        hit == MapHas(cache, key) /\ Fresh(MapGet(cache, key), now)
    IN /\ cache' = IF hit THEN cache ELSE MapDelete(cache, key)
       /\ lastOp' = [op |-> "get", userId |-> userId, type |-> type,
                     params |-> params,
                     found |-> MapHas(cache, key), removed |-> 0,
                     ret |-> IF hit THEN MapGet(cache, key).data ELSE Null]
       /\ UNCHANGED <<userIds, now, expect, cleared, limiterVars, call, serverVars>>

Set(userId, type, params, data) ==
    LET key == generateKey(userId, type, params)
        stored == MapSet(cache, key, data, now)
    IN /\ cache' = IF Len(stored) > SweepThreshold
                   THEN cleanup(stored, now)
                   ELSE stored
       /\ lastOp' = [op |-> "set", userId |-> userId, type |-> type,
                     params |-> params, found |-> FALSE, removed |-> 0,
                     ret |-> data]
       /\ expect' = [expect EXCEPT ![Triple(userId, type, params)] =
                        [data |-> data, at |-> now]]
       /\ cleared' = cleared \ {userId}
       /\ UNCHANGED <<userIds, now, limiterVars, call, serverVars>>

Clear(userId) ==
    /\ cache' = clearFrom(cache, 1, userId)
    /\ lastOp' = [op |-> "clear", userId |-> userId, type |-> <<>>,
                  params |-> Undefined, found |-> FALSE,
                  removed |-> Len(cache) - Len(cache'), ret |-> Null]
    /\ expect' = [tr \in Triples |-> None]
    /\ cleared' = cleared \cup {userId}
    /\ UNCHANGED <<userIds, now, limiterVars, call, serverVars>>

Tick ==
    /\ now < MaxTime
    /\ now' = now + 1
    /\ lastOp' = [op |-> "tick", userId |-> <<>>, type |-> <<>>,
                  params |-> Undefined, found |-> FALSE, removed |-> 0,
                  ret |-> Null]
    /\ expect' = [tr \in Triples |->
                      IF expect[tr] # None /\ now' - expect[tr].at >= TTL
                      THEN None ELSE expect[tr]]
    /\ UNCHANGED <<userIds, cache, cleared, limiterVars, call, serverVars>>

DoGet == \E u \in userIds, t \in Types, p \in ParamValues : Get(u, t, p)

\* every caller of set passes a params object ({} or its options)
DoSet == \E u \in userIds, t \in Types, p \in SetParamValues, d \in Data :
             Set(u, t, p, d)

DoClear == \E u \in userIds : Clear(u)

EmptyMap == [u \in {} |-> <<>>]

\* new AnalysisCache()
InitCache ==
    /\ cache = <<>>
    /\ lastOp = [op |-> "init", userId |-> <<>>, type |-> <<>>,
                 params |-> Undefined, found |-> FALSE, removed |-> 0,
                 ret |-> Null]
    /\ expect = [tr \in Triples |-> None]
    /\ cleared = {}

\* new RateLimiter(MaxRequests, WindowMs)
InitLimiter ==
    /\ requests = EmptyMap
    /\ shadow = EmptyMap
    /\ lastCall = [op |-> "init", userId |-> <<>>, ret |-> FALSE,
                   shadowRet |-> FALSE]
    /\ log = [u \in userIds |-> <<>>]

\* no HTTP request handled yet
NoRequest == [route |-> "none"]

\* an empty emissions collection behind a store that answers
InitServer ==
    /\ collection = <<>>
    /\ dbUp = TRUE
    /\ served = NoRequest
    /\ inflight = <<>>

NoCall == [fn |-> "none", done |-> FALSE]

Init ==
    /\ userIds = AppUserIds
    /\ now = 0
    /\ InitCache
    /\ InitLimiter
    /\ InitServer
    /\ call = NoCall

Next == DoGet \/ DoSet \/ DoClear \/ Tick

Spec == Init /\ [][Next]_vars

----------------------------------------------------------------------------
(* Properties of the cache *)

LastTriple == Triple(lastOp.userId, lastOp.type, lastOp.params)

CacheExpiry ==
    [][lastOp'.op = "get" =>
            LET key == generateKey(lastOp'.userId, lastOp'.type,
                                   lastOp'.params)
            IN /\ (MapHas(cache, key)
                     /\ now - MapGet(cache, key).timestamp >= TTL)
                    => (lastOp'.ret = Null /\ ~MapHas(cache', key))
               /\ ~MapHas(cache, key)
                    => (lastOp'.ret = Null /\ cache' = cache)]_vars

\* a get found an entry, answered null, and other entries are still stored
ExpiredGetSeen ==
    /\ lastOp.op = "get"
    /\ lastOp.found
    /\ lastOp.ret = Null
    /\ ~MapHas(cache, generateKey(lastOp.userId, lastOp.type, lastOp.params))
    /\ Len(cache) >= 1

\* C3: after a set that leaves the map with more than the threshold of
\* entries, no entry is left that get would treat as expired.
SweepLeavesNoExpired ==
    (lastOp.op = "set" /\ Len(cache) > SweepThreshold)
        => \A i \in 1..Len(cache) : Fresh(cache[i], now)

\* C4: after clear(u), no key prefixed by u is stored and every get for u
\* returns null, until the next set for u.
ClearRemovesUser ==
    \A u \in cleared :
        /\ \A i \in 1..Len(cache) : ~StartsWith(cache[i].key, u)
        /\ (lastOp.op = "get" /\ lastOp.userId = u) => lastOp.ret = Null

\* one clear removed two entries and left another user's entry
ClearSeen ==
    /\ lastOp.op = "clear"
    /\ lastOp.removed >= 2
    /\ Len(cache) >= 1

----------------------------------------------------------------------------
(* RateLimiter *)

\* constructor arguments (defaults 100 requests per 60000 ms), scaled
MaxRequests == 2

WindowMs == 2

ValidRequestsInclusive(userRequests, t) ==
    SelectSeq(userRequests, LAMBDA time : t - time <= WindowMs)

\* userRequests.filter((time) => now - time < this.windowMs)
ValidRequests(userRequests, t) ==
    SelectSeq(userRequests, LAMBDA time : t - time < WindowMs)

OverLimitStrict(validRequests) == Len(validRequests) > MaxRequests

\* validRequests.length >= this.maxRequests
OverLimit(validRequests) == Len(validRequests) >= MaxRequests

MapPut(m, k, v) ==
    [x \in DOMAIN m \cup {k} |-> IF x = k THEN v ELSE m[x]]

\* this.requests.get(userId) || []
UserRequests(m, userId) == IF userId \in DOMAIN m THEN m[userId] ELSE <<>>

\* isAllowed(userId) on the map m at time t: the result and the new map
isAllowed(m, userId, t) ==
    LET validRequests == ValidRequests(UserRequests(m, userId), t)
    IN IF OverLimit(validRequests)
       THEN [ret |-> FALSE, map |-> m]
       ELSE [ret |-> TRUE,
             map |-> MapPut(m, userId, Append(validRequests, t))]

limiterCleanupEager(m, t) ==
    LET kept == { u \in DOMAIN m :
                    ValidRequests(m[u], t - 1) # <<>> }
    IN [u \in kept |-> ValidRequests(m[u], t - 1)]

\* cleanup(): filter every list, delete the user when nothing is left
limiterCleanup(m, t) ==
    LET kept == { u \in DOMAIN m : Len(ValidRequests(m[u], t)) # 0 }
    IN [u \in kept |-> ValidRequests(m[u], t)]

IsAllowed(userId) ==
    LET r == isAllowed(requests, userId, now)
        sr == isAllowed(shadow, userId, now)
    IN /\ Len(log[userId]) < MaxCalls
       /\ requests' = r.map
       /\ shadow' = sr.map
       /\ lastCall' = [op |-> "isAllowed", userId |-> userId,
                       ret |-> r.ret, shadowRet |-> sr.ret]
       /\ log' = [log EXCEPT ![userId] = Append(@, [at |-> now,
                                                     ret |-> r.ret])]
       /\ UNCHANGED <<userIds, now, cacheVars, call, serverVars>>

DoIsAllowed == \E u \in userIds : IsAllowed(u)

Cleanup ==
    /\ requests' = limiterCleanup(requests, now)
    /\ lastCall' = [op |-> "cleanup", userId |-> <<>>, ret |-> FALSE,
                    shadowRet |-> FALSE]
    /\ UNCHANGED <<userIds, now, cacheVars, shadow, log, call, serverVars>>

TickLimiter ==
    /\ now < MaxLimiterTime
    /\ now' = now + 1
    /\ lastCall' = [op |-> "tick", userId |-> <<>>, ret |-> FALSE,
                    shadowRet |-> FALSE]
    /\ UNCHANGED <<userIds, cacheVars, requests, shadow, log, call, serverVars>>

NextLimiter == DoIsAllowed \/ Cleanup \/ TickLimiter

SpecLimiter == Init /\ [][NextLimiter]_vars

----------------------------------------------------------------------------
(* Properties of the rate limiter *)

\* the calls of u before call k that were allowed and lie inside the
\* window of call k
AllowedBefore(u, k) ==
    { i \in 1..(k - 1) :
        log[u][i].ret /\ log[u][k].at - log[u][i].at < WindowMs }

\* C5: from an empty limiter, the first MaxRequests calls of a user inside
\* one window are all allowed and the next call inside that window is
\* denied.
LimiterThreshold ==
    \A u \in userIds : \A k \in 1..Len(log[u]) :
        log[u][k].at - log[u][1].at < WindowMs
            => /\ k <= MaxRequests => log[u][k].ret
               /\ k = MaxRequests + 1 => ~log[u][k].ret

ThresholdSeen ==
    \E u \in userIds :
        /\ Len(log[u]) = MaxRequests + 1
        /\ log[u][MaxRequests + 1].at - log[u][1].at < WindowMs
        /\ ~log[u][MaxRequests + 1].ret

\* C6: no more than MaxRequests allowed calls of one user lie in an
\* interval shorter than the window; a call is denied exactly when
\* MaxRequests allowed calls lie inside its window; a denied call leaves the
\* limiter unchanged; a call made when the oldest recorded request is a
\* full window old is allowed.
SlidingWindowState ==
    \A u \in userIds :
        /\ \A k \in 1..Len(log[u]) :
              /\ log[u][k].ret
                    <=> Cardinality(AllowedBefore(u, k)) < MaxRequests
              /\ log[u][k].ret
                    => Cardinality(AllowedBefore(u, k)) + 1 <= MaxRequests
        /\ u \in DOMAIN requests => Len(requests[u]) <= MaxRequests

SlidingWindow ==
    [][/\ SlidingWindowState'
       /\ lastCall'.op = "isAllowed" =>
            LET u == lastCall'.userId
            IN /\ ~lastCall'.ret => requests' = requests
               /\ (u \in DOMAIN requests
                     /\ now - requests[u][1] >= WindowMs)
                    => lastCall'.ret]_vars

\* a user was denied and, once the oldest request left the window, allowed
WindowSlidSeen ==
    \E u \in userIds :
        /\ lastCall.op = "isAllowed" /\ lastCall.userId = u /\ lastCall.ret
        /\ now - log[u][1].at >= WindowMs
        /\ \E k \in 1..Len(log[u]) : ~log[u][k].ret

\* C7: after cleanup no user maps to an empty list and every remaining
\* timestamp is inside the window; the results of isAllowed are those of a
\* limiter that is never cleaned up.
CleanupTransparent ==
    /\ lastCall.op = "cleanup" =>
          \A u \in DOMAIN requests :
              /\ requests[u] # <<>>
              /\ \A i \in 1..Len(requests[u]) :
                    now - requests[u][i] < WindowMs
    /\ lastCall.op = "isAllowed" => lastCall.ret = lastCall.shadowRet

\* an isAllowed call was denied on a limiter whose map a cleanup had changed
CleanupSeen ==
    /\ lastCall.op = "isAllowed"
    /\ ~lastCall.ret
    /\ requests # shadow

----------------------------------------------------------------------------
(* Numbers: a JavaScript number is the fraction num/den, den > 0; den = 0  *)
(* is the outcome of a division by zero (NaN, Infinity, -Infinity)         *)

Abs(n) == IF n < 0 THEN -n ELSE n

Sign(n) == IF n < 0 THEN -1 ELSE IF n > 0 THEN 1 ELSE 0

RECURSIVE GCD(_, _)
GCD(a, b) == IF b = 0 THEN a ELSE GCD(b, a % b)

Frac(n, d) ==
    IF d = 0 THEN [num |-> Sign(n), den |-> 0]
    ELSE LET g == GCD(Abs(n), Abs(d))
         IN [num |-> Sign(d) * (n \div g), den |-> Abs(d) \div g]

Num(n) == [num |-> n, den |-> 1]

Zero == Num(0)

Finite(x) == x.den # 0

Plus(x, y) ==
    IF Finite(x) /\ Finite(y)
    THEN Frac(x.num * y.den + y.num * x.den, x.den * y.den)
    ELSE IF ~Finite(x) /\ ~Finite(y) /\ x.num # y.num
         THEN Frac(0, 0)
         ELSE IF Finite(x) THEN y ELSE x

Negate(x) == [num |-> -x.num, den |-> x.den]

Minus(x, y) == Plus(x, Negate(y))

Times(x, y) ==
    IF Finite(x) /\ Finite(y)
    THEN Frac(x.num * y.num, x.den * y.den)
    ELSE Frac(Sign(x.num) * Sign(y.num), 0)

Over(x, y) ==
    IF Finite(x) /\ Finite(y)
    THEN Frac(x.num * y.den, x.den * y.num)
    ELSE IF Finite(y) THEN Frac(x.num * Sign(y.num), 0)
         ELSE IF Finite(x) THEN Zero ELSE Frac(0, 0)

Less(x, y) == Finite(x) /\ Finite(y) /\ x.num * y.den < y.num * x.den

LessEq(x, y) == Finite(x) /\ Finite(y) /\ x.num * y.den <= y.num * x.den

\* Math.sqrt(x), kept as the root of its argument
Sqrt(x) == [sqrtOf |-> x]

----------------------------------------------------------------------------
(* Statistics primitives *)

\* values.reduce((total, val) => total + val, 0)
RECURSIVE SumOf(_)
SumOf(values) ==
    IF values = <<>> THEN Zero
    ELSE Plus(SumOf(SubSeq(values, 1, Len(values) - 1)), values[Len(values)])

\* [...values].sort((a, b) => a - b): a stable ascending sort of a copy
RECURSIVE InsertSorted(_, _)
InsertSorted(sorted, x) ==
    IF sorted = <<>> THEN <<x>>
    ELSE IF Less(x, Head(sorted)) THEN <<x>> \o sorted
         ELSE <<Head(sorted)>> \o InsertSorted(Tail(sorted), x)

RECURSIVE SortAscending(_)
SortAscending(values) ==
    IF values = <<>> THEN <<>>
    ELSE InsertSorted(SortAscending(SubSeq(values, 1, Len(values) - 1)),
                      values[Len(values)])

calculateMedianUpper(sortedArray) ==
    IF Len(sortedArray) = 0 THEN Zero
    ELSE sortedArray[(Len(sortedArray) \div 2) + 1]

\* calculateMedian(sortedArray); mid is the 0-based index Math.floor(n / 2)
calculateMedian(sortedArray) ==
    IF Len(sortedArray) = 0 THEN Zero
    ELSE LET mid == Len(sortedArray) \div 2
         IN IF Len(sortedArray) % 2 = 0
            THEN Over(Plus(sortedArray[mid], sortedArray[mid + 1]), Num(2))
            ELSE sortedArray[mid + 1]

RECURSIVE SumSquares(_, _)
SumSquares(values, mean) ==
    IF values = <<>> THEN Zero
    ELSE LET val == values[Len(values)]
         IN Plus(SumSquares(SubSeq(values, 1, Len(values) - 1), mean),
                 Times(Minus(val, mean), Minus(val, mean)))

calculateStandardDeviation(values, mean) ==
    IF Len(values) = 0 THEN Zero
    ELSE Sqrt(Over(SumSquares(values, mean), Num(Len(values))))

\* an argument that may be missing (undefined or null)
Missing == [given |-> FALSE, values |-> <<>>]

Given(values) == [given |-> TRUE, values |-> values]

\* calculateStats(values) of the full revision; array is the caller's array
\* after the call
calculateStats(arg) ==
    IF ~arg.given \/ Len(arg.values) = 0
    THEN [array |-> arg,
          out |-> [count |-> Zero, sum |-> Zero, average |-> Zero,
                   min |-> Zero, max |-> Zero, median |-> Zero]]
    ELSE LET values == arg.values
             sortedValues == SortAscending(values)
             sum == SumOf(values)
         IN [array |-> arg,
             out |-> [count |-> Num(Len(values)),
                      sum |-> sum,
                      average |-> Over(sum, Num(Len(values))),
                      min |-> sortedValues[1],
                      max |-> sortedValues[Len(sortedValues)],
                      median |-> calculateMedian(sortedValues),
                      standardDeviation |->
                          calculateStandardDeviation(values,
                              Over(sum, Num(Len(values))))]]

\* calculateStats(values) of the simple revision
calculateStatsSimple(arg) ==
    IF ~arg.given \/ Len(arg.values) = 0
    THEN [array |-> arg,
          out |-> [count |-> Zero, sum |-> Zero, average |-> Zero,
                   min |-> Zero, max |-> Zero]]
    ELSE LET values == arg.values
             sum == SumOf(values)
             sortedValues == SortAscending(values)
         IN [array |-> arg,
             out |-> [count |-> Num(Len(values)),
                      sum |-> sum,
                      average |-> Over(sum, Num(Len(values))),
                      min |-> sortedValues[1],
                      max |-> sortedValues[Len(sortedValues)]]]

calculatePercentageChangeUnguarded(newValue, oldValue) ==
    Times(Over(Minus(newValue, oldValue), oldValue), Num(100))

\* calculatePercentageChange(newValue, oldValue), the same in both revisions
calculatePercentageChange(newValue, oldValue) ==
    IF oldValue = Zero
    THEN IF Less(Zero, newValue) THEN Num(100) ELSE Zero
    ELSE Times(Over(Minus(newValue, oldValue), oldValue), Num(100))

----------------------------------------------------------------------------
(* One call of a helper on arguments drawn from bounded sets *)

MaxLen == 4

StatValues == { -1, 0, 1, 4 }

PctValues == -3..3

RECURSIVE SeqsUpTo(_, _)
SeqsUpTo(S, n) ==
    IF n = 0 THEN { <<>> }
    ELSE LET shorter == SeqsUpTo(S, n - 1)
         IN shorter \cup { Append(q, x) : q \in shorter, x \in S }

StatArgs ==
    { Missing } \cup
    { Given([i \in 1..Len(q) |-> Num(q[i])]) : q \in SeqsUpTo(StatValues, MaxLen) }

InitCalc ==
    /\ userIds = AppUserIds
    /\ now = 0
    /\ InitCache
    /\ InitLimiter
    /\ InitServer
    /\ call \in
         { [fn |-> f, done |-> FALSE, arg |-> a, array |-> a, out |-> Zero] :
             f \in {"calculateStats", "calculateStatsSimple"}, a \in StatArgs }
         \cup
         { [fn |-> "calculatePercentageChange", done |-> FALSE,
            arg |-> <<Num(x), Num(y)>>, array |-> Missing, out |-> Zero] :
             x \in PctValues, y \in PctValues }

Return(r) ==
    /\ call' = [call EXCEPT !.done = TRUE, !.array = r.array, !.out = r.out]
    /\ UNCHANGED <<userIds, now, cacheVars, limiterVars, serverVars>>

CalculateStats ==
    /\ call.fn = "calculateStats" /\ ~call.done
    /\ Return(calculateStats(call.arg))

CalculateStatsSimple ==
    /\ call.fn = "calculateStatsSimple" /\ ~call.done
    /\ Return(calculateStatsSimple(call.arg))

CalculatePercentageChange ==
    /\ call.fn = "calculatePercentageChange" /\ ~call.done
    /\ Return([array |-> Missing,
               out |-> calculatePercentageChange(call.arg[1], call.arg[2])])

NextCalc == CalculateStats \/ CalculateStatsSimple \/ CalculatePercentageChange

SpecCalc == InitCalc /\ [][NextCalc]_vars

----------------------------------------------------------------------------
(* Properties of the statistics primitives *)

Range(q) == { q[i] : i \in 1..Len(q) }

RECURSIVE IntSum(_)
IntSum(q) == IF q = <<>> THEN 0 ELSE Head(q).num + IntSum(Tail(q))

\* the k-th smallest element of q
Kth(q, k) ==
    CHOOSE x \in Range(q) :
        /\ Cardinality({ i \in 1..Len(q) : Less(q[i], x) }) < k
        /\ k <= Cardinality({ i \in 1..Len(q) : LessEq(q[i], x) })

StatsCall == call.done /\ call.fn \in {"calculateStats", "calculateStatsSimple"}

NonEmptyArg == call.arg.given /\ Len(call.arg.values) > 0

StatFields ==
    {"count", "sum", "average", "min", "max", "median", "standardDeviation"}

\* C9: on an empty or missing input calculateStats returns every field of
\* its result, each equal to 0.
EmptyStatsAllZero ==
    (StatsCall /\ call.fn = "calculateStats" /\ ~NonEmptyArg) =>
        \A f \in StatFields :
            f \in DOMAIN call.out /\ call.out[f] = Zero

\* C10: calculatePercentageChange(x, 0) is 100 when x > 0 and 0 otherwise;
\* for oldValue # 0 it is (newValue - oldValue) / oldValue * 100; no result
\* comes from a division by zero.
PercentageChangeCorrect ==
    (call.done /\ call.fn = "calculatePercentageChange") =>
        LET newValue == call.arg[1]
            oldValue == call.arg[2]
        IN /\ Finite(call.out)
           /\ oldValue.num = 0 =>
                 call.out = IF newValue.num > 0 THEN Num(100) ELSE Zero
           /\ oldValue.num # 0 =>
                 Times(call.out, oldValue)
                     = Times(Minus(newValue, oldValue), Num(100))

\* a negative value against a zero baseline
ZeroBaselineSeen ==
    /\ call.done /\ call.fn = "calculatePercentageChange"
    /\ call.arg[2] = Zero
    /\ call.arg[1].num < 0
    /\ call.out = Zero

----------------------------------------------------------------------------
(* Time-windowing: filterEmissionsByDateRange *)

MaxRecords == 3

MaxStamp == 3

filterEmissionsByDateRangeClosed(emissions, startDate, endDate) ==
    SelectSeq(emissions,
              LAMBDA emission : emission.timestamp >= startDate
                                /\ emission.timestamp <= endDate)

\* emissions.filter(e => new Date(e.timestamp) >= startDate
\*                       && new Date(e.timestamp) < endDate)
filterEmissionsByDateRange(emissions, startDate, endDate) ==
    SelectSeq(emissions,
              LAMBDA emission : emission.timestamp >= startDate
                                /\ emission.timestamp < endDate)

\* record lists: record i carries id i and any timestamp
StampedRecords ==
    { [i \in 1..Len(q) |-> [id |-> i, timestamp |-> q[i]]] :
        q \in SeqsUpTo(0..MaxStamp, MaxRecords) }

InitRange ==
    /\ userIds = AppUserIds
    /\ now = 0
    /\ InitCache
    /\ InitLimiter
    /\ InitServer
    /\ call \in
         { [fn |-> "filterEmissionsByDateRange", done |-> FALSE,
            arg |-> [emissions |-> e, a |-> a, b |-> b, c |-> c],
            array |-> Missing, out |-> Zero] :
             e \in StampedRecords,
             a \in 0..(MaxStamp + 1), b \in 0..(MaxStamp + 1),
             c \in 0..(MaxStamp + 1) }
    /\ call.arg.a <= call.arg.b /\ call.arg.b <= call.arg.c

\* the three windows [a, b), [b, c) and [a, c) over one record list
FilterEmissionsByDateRange ==
    /\ call.fn = "filterEmissionsByDateRange" /\ ~call.done
    /\ Return([array |-> Missing,
               out |-> [first |-> filterEmissionsByDateRange(
                                      call.arg.emissions, call.arg.a, call.arg.b),
                        second |-> filterEmissionsByDateRange(
                                      call.arg.emissions, call.arg.b, call.arg.c),
                        whole |-> filterEmissionsByDateRange(
                                      call.arg.emissions, call.arg.a, call.arg.c)]])

NextRange == FilterEmissionsByDateRange

SpecRange == InitRange /\ [][NextRange]_vars

\* C11: a record is kept iff startDate <= timestamp < endDate; for
\* a <= b <= c the results for [a, b) and [b, c) are disjoint and together
\* are the records of [a, c) in the original order; a record stamped at b
\* is counted once, in [b, c).
HalfOpenRange ==
    (call.done /\ call.fn = "filterEmissionsByDateRange") =>
        LET e == call.arg.emissions
            o == call.out
            InWindow(r, lo, hi) == lo <= r.timestamp /\ r.timestamp < hi
        IN /\ \A i \in 1..Len(e) :
                 /\ e[i] \in Range(o.first)
                       <=> InWindow(e[i], call.arg.a, call.arg.b)
                 /\ e[i] \in Range(o.second)
                       <=> InWindow(e[i], call.arg.b, call.arg.c)
                 /\ e[i].timestamp = call.arg.b /\ call.arg.b < call.arg.c
                       => e[i] \in Range(o.second) /\ e[i] \notin Range(o.first)
           /\ Range(o.first) \cap Range(o.second) = {}
           /\ Range(o.first) \cup Range(o.second) = Range(o.whole)
           /\ Len(o.first) + Len(o.second) = Len(o.whole)
           /\ \A i, j \in 1..Len(o.whole) :
                 i < j => o.whole[i].id < o.whole[j].id

\* a record stamped exactly at the shared boundary of two non-empty windows
BoundaryRecordSeen ==
    /\ call.done /\ call.fn = "filterEmissionsByDateRange"
    /\ call.arg.a < call.arg.b /\ call.arg.b < call.arg.c
    /\ \E i \in 1..Len(call.arg.emissions) :
          call.arg.emissions[i].timestamp = call.arg.b
    /\ Len(call.out.first) > 0

----------------------------------------------------------------------------
(* Trend detector: detectTrend, least squares and first-half/second-half   *)

MaxTrendLen == 5

\* Math.abs
AbsNum(x) == [num |-> Abs(x.num), den |-> x.den]

\* a quotient top / Math.sqrt(root), kept exact; root = 1 is a plain number
OverRoot(top, s) == [top |-> top, root |-> s.sqrtOf]

\* Math.sqrt(a) * Math.sqrt(b)
SqrtTimes(s1, s2) == Sqrt(Times(s1.sqrtOf, s2.sqrtOf))

\* values.reduce((sum, val, index) => sum + val * (index + 1), 0)
RECURSIVE SumXY(_)
SumXY(values) ==
    IF values = <<>> THEN Zero
    ELSE Plus(SumXY(SubSeq(values, 1, Len(values) - 1)),
              Times(values[Len(values)], Num(Len(values))))

\* values.reduce((sum, val, index) =>
\*     sum + (index + 1 - meanX) * (val - meanY), 0)
RECURSIVE SumCross(_, _, _)
SumCross(values, meanX, meanY) ==
    IF values = <<>> THEN Zero
    ELSE Plus(SumCross(SubSeq(values, 1, Len(values) - 1), meanX, meanY),
              Times(Minus(Num(Len(values)), meanX),
                    Minus(values[Len(values)], meanY)))

\* values.reduce((sum, val, index) =>
\*     sum + Math.pow(index + 1 - meanX, 2), 0)
RECURSIVE SumIndexSquares(_, _)
SumIndexSquares(n, meanX) ==
    IF n = 0 THEN Zero
    ELSE Plus(SumIndexSquares(n - 1, meanX),
              Times(Minus(Num(n), meanX), Minus(Num(n), meanX)))

SlopeThreshold == Frac(1, 10)

classifySlopeInclusive(slope) ==
    IF LessEq(AbsNum(slope), SlopeThreshold) THEN "stable"
    ELSE IF Less(Zero, slope) THEN "increasing"
         ELSE "decreasing"

\* if (Math.abs(slope) < 0.1) stable; else if (slope > 0) increasing;
\* else decreasing
classifySlope(slope) ==
    IF Less(AbsNum(slope), SlopeThreshold) THEN "stable"
    ELSE IF Less(Zero, slope) THEN "increasing"
         ELSE "decreasing"

MinDataPoints == 3

\* detectTrend(values, minDataPoints = 3) of the full revision, without
\* its message text
detectTrend(values) ==
    IF Len(values) < MinDataPoints
    THEN [trend |-> "insufficient_data", confidence |-> OverRoot(Zero, Sqrt(Num(1)))]
    ELSE LET n == Num(Len(values))
             sumX == Over(Times(n, Plus(n, Num(1))), Num(2))
             sumY == SumOf(values)
             sumXY == SumXY(values)
             sumX2 == Over(Times(Times(n, Plus(n, Num(1))),
                                 Plus(Times(Num(2), n), Num(1))), Num(6))
             slope == Over(Minus(Times(n, sumXY), Times(sumX, sumY)),
                           Minus(Times(n, sumX2), Times(sumX, sumX)))
             intercept == Over(Minus(sumY, Times(slope, sumX)), n)
             meanX == Over(sumX, n)
             meanY == Over(sumY, n)
             numerator == SumCross(values, meanX, meanY)
             denominatorX == Sqrt(SumIndexSquares(Len(values), meanX))
             denominatorY == Sqrt(SumSquares(values, meanY))
             product == SqrtTimes(denominatorX, denominatorY)
             correlation == IF Less(Zero, product.sqrtOf)
                            THEN OverRoot(numerator, product)
                            ELSE OverRoot(Zero, Sqrt(Num(1)))
             confidence == [top |-> Times(AbsNum(correlation.top), Num(100)),
                            root |-> correlation.root]
         IN [trend |-> classifySlope(slope),
             slope |-> slope,
             intercept |-> intercept,
             correlation |-> correlation,
             confidence |-> confidence]

MinHalfPoints == 4

StableBelowPercent == 5

\* detectTrend(values) of the simple revision, without its message text
detectTrendHalves(values) ==
    IF Len(values) < MinHalfPoints
    THEN [trend |-> "insufficient_data"]
    ELSE LET midPoint == Len(values) \div 2
             firstHalf == SubSeq(values, 1, midPoint)
             secondHalf == SubSeq(values, midPoint + 1, Len(values))
             firstAverage == Over(SumOf(firstHalf), Num(Len(firstHalf)))
             secondAverage == Over(SumOf(secondHalf), Num(Len(secondHalf)))
             change == Minus(secondAverage, firstAverage)
             percentChange == Times(Over(change, firstAverage), Num(100))
         IN [trend |-> IF Less(AbsNum(percentChange), Num(StableBelowPercent))
                       THEN "stable"
                       ELSE IF Less(Zero, change) THEN "increasing"
                            ELSE "decreasing",
             change |-> change,
             percentChange |-> AbsNum(percentChange)]

\* the series first, first + step, ..., of n points
ArithmeticSeries(first, step, n) ==
    [i \in 1..n |-> Plus(first, Times(step, Num(i - 1)))]

SeriesFirsts == { Num(-2), Num(0), Num(1), Num(40) }

SeriesSteps ==
    { Num(-2), Num(-1), Frac(-1, 20), Num(0), Frac(1, 20), Frac(1, 10),
      Num(1), Num(2) }

TrendArgs ==
    { [i \in 1..Len(q) |-> Num(q[i])] : q \in SeqsUpTo({0, 1, 3}, MaxTrendLen - 1) }
    \cup { ArithmeticSeries(a, d, n) :
             a \in SeriesFirsts, d \in SeriesSteps, n \in 2..MaxTrendLen }

InitTrend ==
    /\ userIds = AppUserIds
    /\ now = 0
    /\ InitCache
    /\ InitLimiter
    /\ InitServer
    /\ call \in
         { [fn |-> f, done |-> FALSE, arg |-> a, array |-> Missing,
            out |-> Zero] :
             f \in {"detectTrend", "detectTrendHalves"}, a \in TrendArgs }

DetectTrend ==
    /\ call.fn = "detectTrend" /\ ~call.done
    /\ Return([array |-> Missing, out |-> detectTrend(call.arg)])

DetectTrendHalves ==
    /\ call.fn = "detectTrendHalves" /\ ~call.done
    /\ Return([array |-> Missing, out |-> detectTrendHalves(call.arg)])

NextTrend == DetectTrend \/ DetectTrendHalves

SpecTrend == InitTrend /\ [][NextTrend]_vars


(* Properties of the trend detector *)

TrendCall == call.done /\ call.fn \in {"detectTrend", "detectTrendHalves"}

StepOf(values) == Minus(values[2], values[1])

IsSeries(values) ==
    /\ Len(values) >= 2
    /\ \A i \in 1..(Len(values) - 1) :
          Minus(values[i + 1], values[i]) = StepOf(values)

Direction(step) == IF Less(Zero, step) THEN "increasing" ELSE "decreasing"

\* the quotient top / sqrt(root) is the integer k
RootQuotientIs(s, k) ==
    /\ Sign(s.top.num) = Sign(k)
    /\ Times(s.top, s.top) = Times(Num(k * k), s.root)

\* C12 as stated: every strictly increasing (decreasing) arithmetic series
\* of at least 4 points is classified "increasing" ("decreasing"), by the
\* least-squares detector with confidence 100.
TrendEveryArithmetic ==
    (TrendCall /\ Len(call.arg) >= 4 /\ IsSeries(call.arg)
        /\ StepOf(call.arg) # Zero) =>
        /\ call.out.trend = Direction(StepOf(call.arg))
        /\ call.fn = "detectTrend" => RootQuotientIs(call.out.confidence, 100)

\* C12 amended: the least-squares detector finds slope = step, correlation
\* 1 or -1 and confidence 100, and classifies by direction when the step is
\* at least 0.1 in size, "stable" below; the half-split detector classifies
\* by direction when the change of the half means is at least 5% of the
\* size of the first-half mean, "stable" below.
TrendArithmeticThreshold ==
    (TrendCall /\ Len(call.arg) >= 4 /\ IsSeries(call.arg)
        /\ StepOf(call.arg) # Zero) =>
        LET step == StepOf(call.arg)
            n == Len(call.arg)
            m == n \div 2
            firstMean == Plus(call.arg[1], Times(step, Frac(m - 1, 2)))
            change == Times(step, Frac(n, 2))
        IN /\ call.fn = "detectTrend" =>
                 /\ call.out.slope = step
                 /\ RootQuotientIs(call.out.correlation, Sign(step.num))
                 /\ RootQuotientIs(call.out.confidence, 100)
                 /\ call.out.trend =
                       IF Less(AbsNum(step), Frac(1, 10)) THEN "stable"
                       ELSE Direction(step)
           /\ call.fn = "detectTrendHalves" =>
                 call.out.trend =
                     IF Less(Times(Num(100), AbsNum(change)),
                             Times(Num(5), AbsNum(firstMean)))
                     THEN "stable"
                     ELSE Direction(step)

\* a series rising by exactly 0.1 per point, classified "increasing"
ThresholdSeriesSeen ==
    /\ TrendCall /\ call.fn = "detectTrend"
    /\ Len(call.arg) >= 4 /\ IsSeries(call.arg)
    /\ StepOf(call.arg) = Frac(1, 10)
    /\ call.out.trend = "increasing"
    /\ RootQuotientIs(call.out.confidence, 100)

TrendMinimum == IF call.fn = "detectTrend" THEN MinDataPoints ELSE MinHalfPoints

\* C13: a constant series with at least the minimum number of points is
\* classified "stable", with correlation 0 and confidence 0 where they are
\* reported, and every number in the result is finite.
ConstantSeriesStable ==
    (TrendCall /\ Len(call.arg) >= TrendMinimum /\ IsSeries(call.arg)
        /\ StepOf(call.arg) = Zero) =>
        /\ call.out.trend = "stable"
        /\ call.fn = "detectTrend" =>
              /\ Finite(call.out.slope) /\ Finite(call.out.intercept)
              /\ call.out.correlation.top = Zero
              /\ call.out.confidence.top = Zero
        /\ call.fn = "detectTrendHalves" =>
              Finite(call.out.change) /\ Finite(call.out.percentChange)

----------------------------------------------------------------------------
(* Category aggregator: getTopCategories *)

Categories == { "Transport", "Food", "Energy" }

RecordValues == { 0, 1, 2 }

\* categoryTotals after the forEach: one [category, total] per category, in
\* the order the categories first appear (the object's key order)
RECURSIVE CategoryTotals(_)
CategoryTotals(emissions) ==
    IF emissions = <<>> THEN <<>>
    ELSE LET before == CategoryTotals(SubSeq(emissions, 1, Len(emissions) - 1))
             emission == emissions[Len(emissions)]
         IN IF \E i \in 1..Len(before) : before[i].category = emission.category
            THEN [i \in 1..Len(before) |->
                    IF before[i].category = emission.category
                    THEN [before[i] EXCEPT !.total = Plus(@, emission.value)]
                    ELSE before[i]]
            ELSE Append(before, [category |-> emission.category,
                                 total |-> Plus(Zero, emission.value)])

\* entries.sort(([, a], [, b]) => b - a): stable, largest total first
RECURSIVE InsertByTotal(_, _)
InsertByTotal(sorted, x) ==
    IF sorted = <<>> THEN <<x>>
    ELSE IF Less(Head(sorted).total, x.total) THEN <<x>> \o sorted
         ELSE <<Head(sorted)>> \o InsertByTotal(Tail(sorted), x)

RECURSIVE SortByTotal(_)
SortByTotal(entries) ==
    IF entries = <<>> THEN <<>>
    ELSE InsertByTotal(SortByTotal(SubSeq(entries, 1, Len(entries) - 1)),
                       entries[Len(entries)])

\* Object.values(categoryTotals).reduce((sum, val) => sum + val, 0)
RECURSIVE SumTotals(_)
SumTotals(entries) ==
    IF entries = <<>> THEN Zero
    ELSE Plus(SumTotals(SubSeq(entries, 1, Len(entries) - 1)),
              entries[Len(entries)].total)

Min(a, b) == IF a < b THEN a ELSE b

\* getTopCategories(emissions, limit), the same in both revisions
getTopCategories(emissions, limit) ==
    LET categoryTotals == CategoryTotals(emissions)
        sorted == SortByTotal(categoryTotals)
        top == SubSeq(sorted, 1, Min(limit, Len(sorted)))
    IN [i \in 1..Len(top) |->
          [category |-> top[i].category,
           total |-> top[i].total,
           percentage |-> Times(Over(top[i].total, SumTotals(categoryTotals)),
                                Num(100))]]

CategoryRecords ==
    { [i \in 1..Len(q) |-> [category |-> q[i][1], value |-> Num(q[i][2])]] :
        q \in SeqsUpTo(Categories \X RecordValues, MaxRecords) }

InitCategories ==
    /\ userIds = AppUserIds
    /\ now = 0
    /\ InitCache
    /\ InitLimiter
    /\ InitServer
    /\ call \in
         { [fn |-> "getTopCategories", done |-> FALSE,
            arg |-> [emissions |-> e, limit |-> n],
            array |-> Missing, out |-> Zero] :
             e \in CategoryRecords, n \in 0..Cardinality(Categories) }

GetTopCategories ==
    /\ call.fn = "getTopCategories" /\ ~call.done
    /\ Return([array |-> Missing,
               out |-> getTopCategories(call.arg.emissions, call.arg.limit)])

NextCategories == GetTopCategories

SpecCategories == InitCategories /\ [][NextCategories]_vars

(* Properties of the category aggregator *)

CategoriesOf(emissions) == { emissions[i].category : i \in 1..Len(emissions) }

FirstIndex(emissions, category) ==
    CHOOSE i \in 1..Len(emissions) :
        /\ emissions[i].category = category
        /\ \A j \in 1..(i - 1) : emissions[j].category # category

RECURSIVE TotalOf(_, _)
TotalOf(emissions, category) ==
    IF emissions = <<>> THEN 0
    ELSE (IF Head(emissions).category = category
          THEN Head(emissions).value.num ELSE 0)
         + TotalOf(Tail(emissions), category)

RECURSIVE SumField(_, _)
SumField(entries, field) ==
    IF entries = <<>> THEN Zero
    ELSE Plus(Head(entries)[field], SumField(Tail(entries), field))

\* C14: at most n entries, one per distinct category, by total descending
\* with ties in first-appearance order; total is the category's sum and
\* percentage is total / grandTotal * 100 over all categories; the returned
\* totals sum to at most the grand total and, when n covers every category,
\* the percentages sum to 100.
TopCategoriesCorrect ==
    (call.done /\ call.fn = "getTopCategories") =>
        LET e == call.arg.emissions
            n == call.arg.limit
            o == call.out
            grandTotal == IntSum([i \in 1..Len(e) |-> e[i].value])
        IN /\ Len(o) = Min(n, Cardinality(CategoriesOf(e)))
           /\ \A i \in 1..Len(o) :
                 /\ o[i].category \in CategoriesOf(e)
                 /\ o[i].total = Num(TotalOf(e, o[i].category))
                 /\ Finite(o[i].percentage)
                 /\ Times(o[i].percentage, Num(grandTotal))
                       = Times(o[i].total, Num(100))
           /\ \A i, j \in 1..Len(o) :
                 i < j =>
                    /\ o[i].category # o[j].category
                    /\ LessEq(o[j].total, o[i].total)
                    /\ o[i].total = o[j].total =>
                          FirstIndex(e, o[i].category)
                              < FirstIndex(e, o[j].category)
           /\ \A c \in CategoriesOf(e) :
                 (\A i \in 1..Len(o) : o[i].category # c) =>
                    \A i \in 1..Len(o) : LessEq(Num(TotalOf(e, c)), o[i].total)
           /\ LessEq(SumField(o, "total"), Num(grandTotal))
           /\ (Len(e) > 0 /\ n >= Cardinality(CategoriesOf(e))) =>
                 SumField(o, "percentage") = Num(100)

PositiveTotal ==
    IntSum([i \in 1..Len(call.arg.emissions) |->
                call.arg.emissions[i].value]) > 0

\* the same statement restricted to record lists with a positive grand total
TopCategoriesCorrectWhenPositive ==
    (call.done /\ call.fn = "getTopCategories" /\ PositiveTotal)
        => TopCategoriesCorrect


(***************************************************************************)
(* Period comparisons: calculateWeeklyTrend and                            *)
(* calculateTimePeriodComparisons of src/routes/analysis.js, and           *)
(* calculateWeeklyComparison of src/utils/analysisHelpers.js.  Timestamps  *)
(* are numbers of a scaled clock; record timestamps come from the request  *)
(* body of POST /api/emissions (src/routes/emissions.js:31), so they may   *)
(* lie before, in or after any window, and values are parseFloat of the    *)
(* request's value (src/routes/emissions.js:30), of either sign.           *)
(***************************************************************************)

MaxPeriodRecords == 2

\* 7 * 24 * 60 * 60 * 1000 ms (src/routes/analysis.js:544), scaled
WeekMs == 2

\* 30 * 24 * 60 * 60 * 1000 ms (src/routes/analysis.js:965), scaled
MonthMs == 5

\* 90 * 24 * 60 * 60 * 1000 ms (src/routes/analysis.js:967), scaled
QuarterMs == 15

\* emissions.reduce((sum, e) => sum + e.value, 0)
RECURSIVE TotalValue(_)
TotalValue(emissions) ==
    IF emissions = <<>> THEN Zero
    ELSE Plus(TotalValue(SubSeq(emissions, 1, Len(emissions) - 1)),
              emissions[Len(emissions)].value)

\* change > 0 ? "increasing" : change < 0 ? "decreasing" : "stable"
changeTrend(change) ==
    IF Less(Zero, change) THEN "increasing"
    ELSE IF Less(change, Zero) THEN "decreasing" ELSE "stable"

\* lastWeekTotal > 0, previousTotal > 0, previous.totalEmissions > 0
hasBaseline(previousTotal) == Less(Zero, previousTotal)

changePercentageOf(change, previousTotal) ==
    IF hasBaseline(previousTotal)
    THEN Times(Over(change, previousTotal), Num(100))
    ELSE Zero

\* emissions.filter((e) => new Date(e.timestamp) >= from)
since(emissions, from) ==
    SelectSeq(emissions, LAMBDA e : e.timestamp >= from)

\* emissions.filter((e) => date >= from && date < until)
between(emissions, from, until) ==
    SelectSeq(emissions, LAMBDA e : e.timestamp >= from /\ e.timestamp < until)

calculateWeeklyTrend(emissions, nowAt) ==
    LET oneWeekAgo == nowAt - WeekMs
        twoWeeksAgo == nowAt - 2 * WeekMs
        thisWeek == since(emissions, oneWeekAgo)
        lastWeek == between(emissions, twoWeeksAgo, oneWeekAgo)
        thisWeekTotal == TotalValue(thisWeek)
        lastWeekTotal == TotalValue(lastWeek)
        change == Minus(thisWeekTotal, lastWeekTotal)
    IN [currentWeek |-> thisWeekTotal,
        previousWeek |-> lastWeekTotal,
        change |-> change,
        changePercentage |-> changePercentageOf(change, lastWeekTotal),
        trend |-> changeTrend(change)]

getChangeInterpretation(changePercentage) ==
    LET absChange == AbsNum(changePercentage)
    IN IF Less(absChange, Num(5)) THEN "minimal_change"
       ELSE IF Less(absChange, Num(15)) THEN "moderate_change"
       ELSE IF Less(absChange, Num(30)) THEN "significant_change"
       ELSE "major_change"

calculatePeriodMetrics(current, previous, periodName) ==
    LET currentTotal == TotalValue(current)
        previousTotal == TotalValue(previous)
        change == Minus(currentTotal, previousTotal)
        changePercentage == changePercentageOf(change, previousTotal)
    IN [period |-> periodName,
        current |-> [total |-> currentTotal,
                     average |-> IF Len(current) > 0
                                 THEN Over(currentTotal, Num(Len(current)))
                                 ELSE Zero,
                     activities |-> Len(current)],
        previous |-> [total |-> previousTotal,
                      average |-> IF Len(previous) > 0
                                  THEN Over(previousTotal, Num(Len(previous)))
                                  ELSE Zero,
                      activities |-> Len(previous)],
        comparison |-> [change |-> change,
                        changePercentage |-> changePercentage,
                        trend |-> changeTrend(change),
                        interpretation |-> getChangeInterpretation(changePercentage)]]

calculateTimePeriodComparisons(emissions, nowAt) ==
    LET oneWeekAgo == nowAt - WeekMs
        twoWeeksAgo == nowAt - 2 * WeekMs
        oneMonthAgo == nowAt - MonthMs
        twoMonthsAgo == nowAt - 2 * MonthMs
        threeMonthsAgo == nowAt - QuarterMs
        thisWeek == since(emissions, oneWeekAgo)
        lastWeek == between(emissions, twoWeeksAgo, oneWeekAgo)
        thisMonth == since(emissions, oneMonthAgo)
        lastMonth == between(emissions, twoMonthsAgo, oneMonthAgo)
        thisQuarter == since(emissions, threeMonthsAgo)
        previousQuarter == between(emissions, nowAt - 2 * QuarterMs, threeMonthsAgo)
    IN [weekly |-> calculatePeriodMetrics(thisWeek, lastWeek, "weekly"),
        monthly |-> calculatePeriodMetrics(thisMonth, lastMonth, "monthly"),
        quarterly |-> calculatePeriodMetrics(thisQuarter, previousQuarter, "quarterly")]

\* the $match / $addFields / $group pipeline over the user's records, then
\* the comparison; a failing store is the catch branch, not modelled here
calculateWeeklyComparison(emissions, nowAt) ==
    LET currentWeekStart == nowAt - WeekMs
        lastWeekStart == nowAt - 2 * WeekMs
        matched == since(emissions, lastWeekStart)
        currentGroup == SelectSeq(matched, LAMBDA e : e.timestamp >= currentWeekStart)
        previousGroup == SelectSeq(matched, LAMBDA e : ~(e.timestamp >= currentWeekStart))
        current == [totalEmissions |-> TotalValue(currentGroup),
                    activityCount |-> Len(currentGroup)]
        previous == [totalEmissions |-> TotalValue(previousGroup),
                     activityCount |-> Len(previousGroup)]
        changePercent ==
            changePercentageOf(Minus(current.totalEmissions, previous.totalEmissions),
                               previous.totalEmissions)
    IN [current |-> current.totalEmissions,
        previous |-> previous.totalEmissions,
        changePercent |-> changePercent,
        trend |-> IF Less(changePercent, Num(-5)) THEN "decreasing"
                  ELSE IF Less(Num(5), changePercent) THEN "increasing"
                  ELSE "stable",
        currentActivities |-> current.activityCount,
        previousActivities |-> previous.activityCount]

\* the clock reading of the comparison and the timestamps a record can carry
PeriodNow == 2 * WeekMs + 1

PeriodStamps == 0..(PeriodNow + 1)

PeriodValues == { Num(-5), Num(0), Num(20), Num(25) }

PeriodRecords ==
    { [i \in 1..Len(q) |-> [timestamp |-> q[i][1], value |-> q[i][2]]] :
        q \in SeqsUpTo(PeriodStamps \X PeriodValues, MaxPeriodRecords) }

InitPeriod ==
    /\ userIds = AppUserIds
    /\ now = 0
    /\ InitCache
    /\ InitLimiter
    /\ InitServer
    /\ call \in
         { [fn |-> f, done |-> FALSE,
            arg |-> [emissions |-> e, now |-> PeriodNow],
            array |-> Missing, out |-> Zero] :
             f \in {"calculateWeeklyTrend", "calculateTimePeriodComparisons",
                    "calculateWeeklyComparison"},
             e \in PeriodRecords }

CalculateWeeklyTrend ==
    /\ call.fn = "calculateWeeklyTrend" /\ ~call.done
    /\ Return([array |-> Missing,
               out |-> calculateWeeklyTrend(call.arg.emissions, call.arg.now)])

CalculateTimePeriodComparisons ==
    /\ call.fn = "calculateTimePeriodComparisons" /\ ~call.done
    /\ Return([array |-> Missing,
               out |-> calculateTimePeriodComparisons(call.arg.emissions, call.arg.now)])

CalculateWeeklyComparison ==
    /\ call.fn = "calculateWeeklyComparison" /\ ~call.done
    /\ Return([array |-> Missing,
               out |-> calculateWeeklyComparison(call.arg.emissions, call.arg.now)])

NextPeriod ==
    CalculateWeeklyTrend \/ CalculateTimePeriodComparisons \/ CalculateWeeklyComparison

SpecPeriod == InitPeriod /\ [][NextPeriod]_vars

PeriodCall ==
    /\ call.fn \in {"calculateWeeklyTrend", "calculateTimePeriodComparisons",
                    "calculateWeeklyComparison"}
    /\ call.done

\* the weekly totals, change and percentage a finished comparison reports
WeeklyReport ==
    CASE call.fn = "calculateWeeklyTrend" ->
           [current |-> call.out.currentWeek, previous |-> call.out.previousWeek,
            change |-> call.out.change, percentage |-> call.out.changePercentage,
            trend |-> call.out.trend]
      [] call.fn = "calculateTimePeriodComparisons" ->
           [current |-> call.out.weekly.current.total,
            previous |-> call.out.weekly.previous.total,
            change |-> call.out.weekly.comparison.change,
            percentage |-> call.out.weekly.comparison.changePercentage,
            trend |-> call.out.weekly.comparison.trend]
      [] call.fn = "calculateWeeklyComparison" ->
           [current |-> call.out.current, previous |-> call.out.previous,
            change |-> Minus(call.out.current, call.out.previous),
            percentage |-> call.out.changePercent,
            trend |-> call.out.trend]

PeriodArithmeticOf(r) ==
    /\ r.change = Minus(r.current, r.previous)
    /\ r.percentage = IF r.previous = Zero THEN Zero
                      ELSE Times(Over(r.change, r.previous), Num(100))
    /\ (r.current = Num(20) /\ r.previous = Num(25)) =>
         (r.percentage = Num(-20) /\ r.trend = "decreasing")

\* C15: in calculateWeeklyTrend, calculatePeriodMetrics and
\* calculateWeeklyComparison alike, change = currentTotal - previousTotal and
\* changePercentage = change / previousTotal * 100, 0 when previousTotal is 0;
\* current 20 against previous 25 gives -20 and "decreasing"
PeriodArithmetic == PeriodCall => PeriodArithmeticOf(WeeklyReport)

\* the same statement for period totals that are not negative
PeriodArithmeticNonNegative ==
    (PeriodCall /\ LessEq(Zero, WeeklyReport.previous)) =>
        PeriodArithmeticOf(WeeklyReport)

NegativeBaselineSeen ==
    PeriodCall /\ Less(WeeklyReport.previous, Zero)

WeeklyWindowsOf(r, emissions, nowAt) ==
    /\ r.current = TotalValue(between(emissions, nowAt - WeekMs, nowAt))
    /\ r.previous = TotalValue(between(emissions, nowAt - 2 * WeekMs, nowAt - WeekMs))

\* C16: the current-week total counts exactly the records with
\* now-7d <= timestamp < now and the previous-week total exactly those with
\* now-14d <= timestamp < now-7d; a record at now-7d counts only as current,
\* and one at or after now, or before now-14d, counts in neither
WeeklyWindows ==
    PeriodCall => WeeklyWindowsOf(WeeklyReport, call.arg.emissions, call.arg.now)

NoRecordFromNowOn ==
    \A i \in 1..Len(call.arg.emissions) :
        call.arg.emissions[i].timestamp < call.arg.now

\* the same statement for record lists with no record stamped at or after now
WeeklyWindowsUpToNow ==
    (PeriodCall /\ NoRecordFromNowOn) =>
        WeeklyWindowsOf(WeeklyReport, call.arg.emissions, call.arg.now)


(***************************************************************************)
(* calculateLoggingStreak of src/routes/analysis.js.  Timestamps are       *)
(* numbers of a scaled clock with DayMs units to the day; toDateString is  *)
(* the calendar day of a timestamp, with every day DayMs long (a server    *)
(* clock without daylight-saving shifts).                                  *)
(***************************************************************************)

MaxStreakRecords == 4

\* 24 * 60 * 60 * 1000 ms (src/routes/analysis.js:2021), scaled
DayMs == 2

\* for (let i = 0; i < 30; i++) (src/routes/analysis.js:2019), scaled
LookbackDays == 3

\* Date.prototype.toDateString: the calendar day a timestamp falls on
toDateString(timestamp) == timestamp \div DayMs

\* emissions.filter(... toDateString() === checkDate.toDateString())
dayEmissions(emissions, checkDate) ==
    SelectSeq(emissions,
              LAMBDA e : toDateString(e.timestamp) = toDateString(checkDate))

\* the loop from iteration i on: the days it still adds to streak
RECURSIVE streakFrom(_, _, _)
streakFrom(emissions, today, i) ==
    IF ~(i < LookbackDays) THEN 0
    ELSE IF Len(dayEmissions(emissions, today - i * DayMs)) > 0
         THEN 1 + streakFrom(emissions, today, i + 1)
         ELSE 0

\* the loop without its break: every logged day of the lookback counts
RECURSIVE loggedDaysFrom(_, _, _)
loggedDaysFrom(emissions, today, i) ==
    IF ~(i < LookbackDays) THEN 0
    ELSE (IF Len(dayEmissions(emissions, today - i * DayMs)) > 0 THEN 1 ELSE 0)
         + loggedDaysFrom(emissions, today, i + 1)

calculateLoggingStreakNoBreak(emissions, today) == loggedDaysFrom(emissions, today, 0)

calculateLoggingStreak(emissions, today) == streakFrom(emissions, today, 0)

\* today is on the day LookbackDays; records lie on the days 0..LookbackDays
StreakTodays == { LookbackDays * DayMs + h : h \in 0..(DayMs - 1) }

StreakStamps == 0..((LookbackDays + 1) * DayMs - 1)

StreakRecords ==
    { [i \in 1..Len(q) |-> [timestamp |-> q[i]]] :
        q \in SeqsUpTo(StreakStamps, MaxStreakRecords) }

InitStreak ==
    /\ userIds = AppUserIds
    /\ now = 0
    /\ InitCache
    /\ InitLimiter
    /\ InitServer
    /\ call \in
         { [fn |-> "calculateLoggingStreak", done |-> FALSE,
            arg |-> [emissions |-> e, today |-> t],
            array |-> Missing, out |-> Zero] :
             e \in StreakRecords, t \in StreakTodays }

CalculateLoggingStreak ==
    /\ call.fn = "calculateLoggingStreak" /\ ~call.done
    /\ Return([array |-> Missing,
               out |-> calculateLoggingStreak(call.arg.emissions, call.arg.today)])

NextStreak == CalculateLoggingStreak

SpecStreak == InitStreak /\ [][NextStreak]_vars

StreakCall == call.fn = "calculateLoggingStreak" /\ call.done

\* some record of the list falls on calendar day d
LoggedOn(emissions, d) ==
    \E i \in 1..Len(emissions) : toDateString(emissions[i].timestamp) = d

\* the records of the list that fall after calendar day d
RecordsAfter(emissions, d) ==
    SelectSeq(emissions, LAMBDA e : toDateString(e.timestamp) > d)

\* C17: calculateLoggingStreak(records, today) is the number k of
\* consecutive calendar days today, today-1, ..., today-k+1 that each have a
\* record, where day today-k has none or k is the lookback cap; it is 0 when
\* today has no record, never exceeds the cap, and does not depend on the
\* records older than the first gap
LoggingStreak ==
    StreakCall =>
        LET emissions == call.arg.emissions
            day == toDateString(call.arg.today)
            k == call.out
        IN /\ k \in 0..LookbackDays
           /\ \A j \in 0..(k - 1) : LoggedOn(emissions, day - j)
           /\ k = LookbackDays \/ ~LoggedOn(emissions, day - k)
           /\ ~LoggedOn(emissions, day) => k = 0
           /\ calculateLoggingStreak(RecordsAfter(emissions, day - k),
                                     call.arg.today) = k

\* a streak cut by a gap with an older record behind the gap
GapStreakSeen ==
    /\ StreakCall
    /\ call.out = 1
    /\ ~LoggedOn(call.arg.emissions, toDateString(call.arg.today) - 1)
    /\ LoggedOn(call.arg.emissions, toDateString(call.arg.today) - 2)


(***************************************************************************)
(* validateEmissionData of src/utils/analysisHelpers.js, in its full and   *)
(* its simple revision.  A record is an object whose category, value and   *)
(* timestamp may each be absent; a value is undefined, a number (NaN       *)
(* included) or a non-numeric string; a timestamp that is present is a     *)
(* Date or an ISO string, on the scaled clock of DayMs units to the day.   *)
(***************************************************************************)

\* emission.value > 1000 (src/utils/analysisHelpers.js:1071)
UnusuallyHigh == 1000

\* now.getFullYear() - 1 (src/utils/analysisHelpers.js:1082): a year, in days, scaled
YearDays == 2

NaN == Frac(0, 0)

UndefinedValue == [kind |-> "undefined", num |-> NaN]

NumberValue(x) == [kind |-> "number", num |-> x]

\* a string that is not a numeral: Number(s) is NaN
StringValue == [kind |-> "string", num |-> NaN]

NoTimestamp == [given |-> FALSE, at |-> 0]

Timestamp(t) == [given |-> TRUE, at |-> t]

\* !emission.value: undefined, 0 and NaN are falsy, a non-empty string is not
falsyValue(value) ==
    \/ value.kind = "undefined"
    \/ value.kind = "number" /\ (value.num = Zero \/ ~Finite(value.num))

\* isNaN(emission.value)
isNaN(value) == value.num = NaN

\* new Date(now.getFullYear() - 1, now.getMonth(), now.getDate()): the start
\* of the day one year before today
oneYearAgoOf(nowAt) == (toDateString(nowAt) - YearDays) * DayMs

\* the revision at lines 1060-1099
validateEmissionData(emission, nowAt) ==
    LET e1 == IF ~emission.hasCategory THEN <<"Category is required">> ELSE <<>>
        e2 == IF emission.value.kind # "number" \/ Less(emission.value.num, Zero)
              THEN <<"Value must be a positive number">> ELSE <<>>
        e3 == IF Less(Num(UnusuallyHigh), emission.value.num)
              THEN <<"Value seems unusually high - please verify">> ELSE <<>>
        e4 == IF ~emission.timestamp.given
              THEN <<"Timestamp is required">> ELSE <<>>
        \* new Date(undefined) is an invalid date: both comparisons are false
        e5 == IF emission.timestamp.given /\ emission.timestamp.at > nowAt
              THEN <<"Emission date cannot be in the future">> ELSE <<>>
        e6 == IF emission.timestamp.given /\ emission.timestamp.at < oneYearAgoOf(nowAt)
              THEN <<"Emission date is more than one year old">> ELSE <<>>
        errors == e1 \o e2 \o e3 \o e4 \o e5 \o e6
    IN [isValid |-> Len(errors) = 0, errors |-> errors]

\* the revision at lines 450-467
validateEmissionDataSimple(emission, nowAt) ==
    LET e1 == IF ~emission.hasCategory THEN <<"Category is required">> ELSE <<>>
        e2 == IF falsyValue(emission.value) THEN <<"Value is required">> ELSE <<>>
        e3 == IF ~emission.timestamp.given THEN <<"Date is required">> ELSE <<>>
        e4 == IF /\ ~falsyValue(emission.value)
                 /\ (isNaN(emission.value) \/ Less(emission.value.num, Zero))
              THEN <<"Value must be a positive number">> ELSE <<>>
        errors == e1 \o e2 \o e3 \o e4
    IN [isValid |-> Len(errors) = 0, errors |-> errors]

\* the clock reading of the validation: the second half of day YearDays + 1
ValidationNow == (YearDays + 1) * DayMs + 1

ValidationValues ==
    { UndefinedValue, StringValue, NumberValue(NaN) } \cup
    { NumberValue(Num(n)) : n \in {-5, 0, 20, UnusuallyHigh, UnusuallyHigh + 1} }

ValidationTimestamps ==
    { NoTimestamp } \cup { Timestamp(t) : t \in 0..(ValidationNow + 2) }

ValidationRecords ==
    { [hasCategory |-> c, value |-> v, timestamp |-> t] :
        c \in BOOLEAN, v \in ValidationValues, t \in ValidationTimestamps }

InitValidation ==
    /\ userIds = AppUserIds
    /\ now = 0
    /\ InitCache
    /\ InitLimiter
    /\ InitServer
    /\ call \in
         { [fn |-> f, done |-> FALSE,
            arg |-> [emission |-> e, now |-> ValidationNow],
            array |-> Missing, out |-> Zero] :
             f \in {"validateEmissionData", "validateEmissionDataSimple"},
             e \in ValidationRecords }

ValidateEmissionData ==
    /\ call.fn = "validateEmissionData" /\ ~call.done
    /\ Return([array |-> Missing,
               out |-> validateEmissionData(call.arg.emission, call.arg.now)])

ValidateEmissionDataSimple ==
    /\ call.fn = "validateEmissionDataSimple" /\ ~call.done
    /\ Return([array |-> Missing,
               out |-> validateEmissionDataSimple(call.arg.emission, call.arg.now)])

NextValidation == ValidateEmissionData \/ ValidateEmissionDataSimple

SpecValidation == InitValidation /\ [][NextValidation]_vars

ValidationCall ==
    call.fn \in {"validateEmissionData", "validateEmissionDataSimple"} /\ call.done

NonNegativeNumber(value) ==
    value.kind = "number" /\ LessEq(Zero, value.num)

NegativeNumber(value) ==
    value.kind = "number" /\ Less(value.num, Zero)

InFuture(emission, nowAt) ==
    emission.timestamp.given /\ emission.timestamp.at > nowAt

OverOneYearOld(emission, nowAt) ==
    emission.timestamp.given /\ emission.timestamp.at < nowAt - YearDays * DayMs

\* the rules of the data model a record violates
ViolatedRules(emission, nowAt) ==
    { r \in {"category", "value", "future", "old"} :
        \/ r = "category" /\ ~emission.hasCategory
        \/ r = "value" /\ NegativeNumber(emission.value)
        \/ r = "future" /\ InFuture(emission, nowAt)
        \/ r = "old" /\ OverOneYearOld(emission, nowAt) }

ValidationContractOf(emission, nowAt, result) ==
    /\ result.isValid <=> result.errors = <<>>
    /\ ( /\ emission.hasCategory
         /\ NonNegativeNumber(emission.value)
         /\ emission.timestamp.given
         /\ ViolatedRules(emission, nowAt) = {} ) => result.isValid
    /\ ViolatedRules(emission, nowAt) # {} => ~result.isValid
    /\ ( /\ emission.timestamp.given
         /\ NonNegativeNumber(emission.value) \/ NegativeNumber(emission.value) )
       => Len(result.errors) = Cardinality(ViolatedRules(emission, nowAt))

\* C18: validateEmissionData returns {isValid, errors} with isValid true
\* exactly when errors is empty; a record with a category, a non-negative
\* numeric value (0 included) and a timestamp not in the future and within
\* the last year is valid; a missing category, a negative value, a future
\* timestamp or a timestamp more than one year old makes it invalid, with one
\* error string per violated rule
ValidationContract ==
    ValidationCall =>
        ValidationContractOf(call.arg.emission, call.arg.now, call.out)

\* what both revisions do satisfy: isValid says whether errors is empty, and
\* a missing category or a negative value is always reported
ValidationStructure ==
    ValidationCall =>
        /\ call.out.isValid <=> call.out.errors = <<>>
        /\ ~call.arg.emission.hasCategory => ~call.out.isValid
        /\ NegativeNumber(call.arg.emission.value) => ~call.out.isValid

\* the full revision keeps the claim for values up to the plausibility limit
\* and timestamps outside the part-day between the start of the day one year
\* ago and the time of day of the call
ValidationContractWithinLimit ==
    ( /\ ValidationCall
      /\ call.fn = "validateEmissionData"
      /\ ~Less(Num(UnusuallyHigh), call.arg.emission.value.num)
      /\ call.arg.emission.timestamp.given =>
           ~(call.arg.emission.timestamp.at \in
               oneYearAgoOf(call.arg.now)..(call.arg.now - YearDays * DayMs - 1)) )
    => ValidationContractOf(call.arg.emission, call.arg.now, call.out)


(***************************************************************************)
(* POST /api/emissions of src/routes/emissions.js.  The request has passed *)
(* authenticateToken, so req.user.id is a registered user's id.  A stored  *)
(* record keeps the userId, category, value and timestamp of emissionData; *)
(* activity, userName and createdAt are written too and read by nothing    *)
(* modelled here.                                                          *)
(***************************************************************************)

MaxStored == 2

\* a string that is a numeral, such as "-5"
NumeralString(x) == [kind |-> "string", num |-> x]

\* parseFloat(value): a number is itself, a numeral string its number, and
\* undefined or any other string NaN
parseFloat(value) == IF value.kind = "undefined" THEN NaN ELSE value.num

\* the request bodies a client can send at the current clock reading
PostBodies ==
    { [hasCategory |-> c, hasActivity |-> a, value |-> v, timestamp |-> now,
       userId |-> u] :
        c \in BOOLEAN, a \in BOOLEAN,
        v \in { UndefinedValue, StringValue, NumeralString(Num(-5)),
                NumberValue(Num(0)), NumberValue(Num(20)) },
        u \in AppUserIds }

Respond(route, userId, readFailed, status, body) ==
    served' = [route |-> route, userId |-> userId, storeUp |-> dbUp,
               readFailed |-> readFailed, responses |-> 1, escaped |-> FALSE,
               status |-> status, body |-> body]

\* router.post("/", authenticateToken, ...)
PostEmission(body, user) ==
    /\ Len(collection) < MaxStored
    /\ IF ~body.hasCategory \/ ~body.hasActivity \/ body.value.kind = "undefined"
       THEN /\ Respond("POST /api/emissions", body.userId, FALSE, 400,
                       [message |-> "Category, activity, and value are required"])
            /\ UNCHANGED collection
       ELSE IF body.userId # user
       THEN /\ Respond("POST /api/emissions", body.userId, FALSE, 403,
                       [message |-> "Cannot save emissions for another user"])
            /\ UNCHANGED collection
       ELSE IF ~dbUp
       \* insertOne rejects: the catch branch
       THEN /\ Respond("POST /api/emissions", body.userId, FALSE, 500,
                       [message |-> "Server error saving emission"])
            /\ UNCHANGED collection
       ELSE /\ collection' = Append(collection,
                                    [userId |-> body.userId, category |-> "Food",
                                     value |-> parseFloat(body.value),
                                     timestamp |-> body.timestamp])
            /\ Respond("POST /api/emissions", body.userId, FALSE, 201,
                       [message |-> "Emission saved successfully"])
    /\ UNCHANGED <<userIds, now, cacheVars, limiterVars, call, dbUp, inflight>>

DoPostEmission == \E body \in PostBodies, user \in AppUserIds : PostEmission(body, user)

\* the document store stops answering, and answers again
StoreFails ==
    /\ dbUp
    /\ dbUp' = FALSE
    /\ UNCHANGED <<userIds, now, cacheVars, limiterVars, call, collection, served, inflight>>

StoreRecovers ==
    /\ ~dbUp
    /\ dbUp' = TRUE
    /\ UNCHANGED <<userIds, now, cacheVars, limiterVars, call, collection, served, inflight>>

InitStore ==
    /\ userIds = AppUserIds
    /\ now = 0
    /\ InitCache
    /\ InitLimiter
    /\ InitServer
    /\ call = NoCall

NextStore == DoPostEmission \/ StoreFails \/ StoreRecovers

SpecStore == InitStore /\ [][NextStore]_vars

\* C19: every emission record created through POST /api/emissions has a
\* numeric value with value >= 0; a request carrying a negative or
\* non-numeric value does not add a record
StoredValuesNonNegative ==
    \A i \in 1..Len(collection) : LessEq(Zero, collection[i].value)

\* what the handler does keep: only the authenticated user's own records,
\* each with a category, are stored
StoredRecordsOwned ==
    [][ Len(collection') > Len(collection) =>
          /\ served'.status = 201
          /\ collection'[Len(collection')].userId = served'.userId ]_vars


(***************************************************************************)
(* The analysis requests: GET /insights/:userId of src/routes/analysis.js  *)
(* and GET /quick-stats/:userId of src/unnamed/part_000, which goes        *)
(* through analysisCache, calculateQuickStats and calculateWeeklyComparison*)
(* of src/utils/analysisHelpers.js.  A handler runs as one step and sees   *)
(* the store either answering or failing for all of its reads; the other   *)
(* analysis routes of src/routes/analysis.js have the shape of             *)
(* GET /insights.  Response bodies keep the fields that tell a result from *)
(* a failure and the totals.                                               *)
(***************************************************************************)

\* .find({ userId: new ObjectId(userId) }) / $match: { userId }
userRecords(userId) == SelectSeq(collection, LAMBDA e : e.userId = userId)

\* calculateQuickStats: the try branch when the store answers, the catch
\* branch { hasData: false, error: error.message } when it does not
calculateQuickStats(records, up) ==
    IF ~up THEN [hasData |-> FALSE, error |-> TRUE,
                 totalEmissions |-> Zero, totalActivities |-> 0]
    ELSE IF Len(records) = 0
    THEN [hasData |-> FALSE, error |-> FALSE,
          totalEmissions |-> Zero, totalActivities |-> 0]
    ELSE [hasData |-> TRUE, error |-> FALSE,
          totalEmissions |-> TotalValue(records),
          totalActivities |-> Len(records)]

\* calculateWeeklyComparison with its catch branch { error: error.message }
weeklyComparisonOrError(records, up, nowAt) ==
    IF ~up THEN [error |-> TRUE, current |-> Zero, previous |-> Zero]
    ELSE LET c == calculateWeeklyComparison(records, nowAt)
         IN [error |-> FALSE, current |-> c.current, previous |-> c.previous]

QuickStats == <<"quick", "-", "stats">>

\* router.get("/quick-stats/:userId", authenticateToken, ...)
GetQuickStats(userId, user) ==
    LET key == generateKey(userId, QuickStats, Undefined)
        hit == MapHas(cache, key) /\ Fresh(MapGet(cache, key), now)
        stats == calculateQuickStats(userRecords(userId), dbUp)
        weeklyComparison == weeklyComparisonOrError(userRecords(userId), dbUp, now)
        response == [hasData |-> stats.hasData, error |-> stats.error,
                     totalEmissions |-> stats.totalEmissions,
                     totalActivities |-> stats.totalActivities,
                     weeklyComparison |-> weeklyComparison,
                     fromCache |-> FALSE]
        stored == MapSet(MapDelete(cache, key),
                         generateKey(userId, QuickStats, Obj(<<>>)), response, now)
    IN /\ IF userId # user
          THEN /\ Respond("GET /quick-stats", userId, FALSE, 403,
                          [message |-> "Cannot access another user's statistics"])
               /\ UNCHANGED cache
          ELSE IF hit
          THEN /\ Respond("GET /quick-stats", userId, FALSE, 200,
                          [MapGet(cache, key).data EXCEPT !.fromCache = TRUE])
               /\ UNCHANGED cache
          ELSE /\ cache' = IF Len(stored) > SweepThreshold
                           THEN cleanup(stored, now)
                           ELSE stored
               /\ Respond("GET /quick-stats", userId, ~dbUp, 200, response)
       /\ UNCHANGED <<userIds, now, lastOp, expect, cleared, limiterVars, call,
                      collection, dbUp, inflight>>

\* router.get("/insights/:userId", authenticateToken, ...)
GetInsights(userId, user) ==
    LET emissions == userRecords(userId)
    IN /\ IF userId # user
          THEN Respond("GET /insights", userId, FALSE, 403,
                       [message |-> "Cannot access another user's insights"])
          ELSE IF ~dbUp
          \* find(...).toArray() rejects: the catch branch
          THEN Respond("GET /insights", userId, TRUE, 500,
                       [message |-> "Server error generating insights"])
          ELSE IF Len(emissions) = 0
          THEN Respond("GET /insights", userId, FALSE, 200,
                       [hasData |-> FALSE])
          ELSE Respond("GET /insights", userId, FALSE, 200,
                       [hasData |-> TRUE,
                        weeklyTrend |-> calculateWeeklyTrend(emissions, now),
                        totalEmissions |-> TotalValue(emissions),
                        totalActivities |-> Len(emissions)])
       /\ UNCHANGED <<userIds, now, cacheVars, limiterVars, call, collection, dbUp, inflight>>

DoGetQuickStats == \E userId \in AppUserIds, user \in AppUserIds : GetQuickStats(userId, user)

DoGetInsights == \E userId \in AppUserIds, user \in AppUserIds : GetInsights(userId, user)

TickServer ==
    /\ now < MaxTime
    /\ now' = now + 1
    /\ UNCHANGED <<userIds, cacheVars, limiterVars, call, serverVars>>

\* the records POST /api/emissions has stored before the requests
StoredCollections ==
    SeqsUpTo({ [userId |-> u, category |-> "Food", value |-> Num(20),
                timestamp |-> 0] : u \in AppUserIds }, MaxStored)

InitRequests ==
    /\ userIds = AppUserIds
    /\ now = 0
    /\ InitCache
    /\ InitLimiter
    /\ call = NoCall
    /\ collection \in StoredCollections
    /\ dbUp = TRUE
    /\ served = NoRequest
    /\ inflight = <<>>

NextRequests ==
    DoGetQuickStats \/ DoGetInsights \/ StoreFails \/ StoreRecovers \/ TickServer

SpecRequests == InitRequests /\ [][NextRequests]_vars

\* an analysis request of a user for their own data has been handled
AnalysisRequest ==
    /\ served.route \in {"GET /insights", "GET /quick-stats"}
    /\ served.status # 403

\* a 500-style response or an error object
FailureResult(r) ==
    \/ r.status = 500
    \/ /\ r.route = "GET /quick-stats"
       /\ r.status = 200
       /\ r.body.error \/ r.body.weeklyComparison.error

\* C20: when the store read fails during an analysis request the error does
\* not escape the handler and the request ends with exactly one response, a
\* failure result; the failure is scoped to that request: a request handled
\* while the store works is served normally
FetchFailureContained ==
    AnalysisRequest =>
        /\ served.responses = 1
        /\ ~served.escaped
        /\ served.readFailed => FailureResult(served)
        /\ served.storeUp => ~FailureResult(served)

\* the failing request itself is contained on both routes
FetchFailureAnswered ==
    AnalysisRequest =>
        /\ served.responses = 1
        /\ ~served.escaped
        /\ served.readFailed => FailureResult(served)

\* GET /insights, which caches nothing, keeps the whole statement
InsightsFailureContained ==
    (AnalysisRequest /\ served.route = "GET /insights") =>
        /\ served.responses = 1
        /\ ~served.escaped
        /\ served.readFailed => FailureResult(served)
        /\ served.storeUp => ~FailureResult(served)

\* a failure object served from the cache while the store answers
CachedFailureSeen ==
    /\ AnalysisRequest
    /\ served.route = "GET /quick-stats"
    /\ served.storeUp
    /\ served.body.fromCache
    /\ served.body.error


(***************************************************************************)
(* Interleaved insights requests: AnalysisService.getUserInsights of       *)
(* src/services/AnalysisService.js and the cached GET /insights/:userId of *)
(* src/unnamed/part_000.  A request runs in steps separated by its awaits: *)
(* the cache lookup, the store read, and for the service the return from   *)
(* generateComprehensiveInsights before the cache write.  The insights     *)
(* keep their totals and their generatedAt: new Date().                    *)
(***************************************************************************)

MaxInflight == 2

Insights == <<"insights">>

Idle == [pc |-> "idle"]

\* generateComprehensiveInsights / the insights object of the route
insightsOf(emissions, nowAt) ==
    [hasData |-> TRUE,
     totalEmissions |-> TotalValue(emissions),
     totalActivities |-> Len(emissions),
     generatedAt |-> nowAt]

\* const cached = cache.get(userId, "insights", options); on a hit the
\* request answers from the cache, on a miss it awaits the store read
StartInsights(r, kind, userId) ==
    LET key == generateKey(userId, Insights, Undefined)
        hit == MapHas(cache, key) /\ Fresh(MapGet(cache, key), now)
    IN /\ inflight[r].pc = "idle"
       /\ inflight' = [inflight EXCEPT ![r] =
             IF hit
             THEN [pc |-> "done", kind |-> kind, userId |-> userId,
                   missed |-> FALSE, computed |-> FALSE, status |-> 200,
                   insights |-> MapGet(cache, key).data]
             ELSE [pc |-> "fetching", kind |-> kind, userId |-> userId,
                   missed |-> TRUE, computed |-> FALSE, status |-> 0,
                   insights |-> [hasData |-> FALSE]]]
       /\ cache' = IF hit THEN cache ELSE MapDelete(cache, key)
       /\ UNCHANGED <<userIds, now, lastOp, expect, cleared, limiterVars, call,
                      collection, dbUp, served>>

\* cache.set(userId, "insights", options, insights)
setInsights(userId, insights) ==
    LET stored == MapSet(cache, generateKey(userId, Insights, Obj(<<>>)),
                         insights, now)
    IN IF Len(stored) > SweepThreshold THEN cleanup(stored, now) ELSE stored

\* the store read settles: a rejection ends the request, an empty list is
\* answered without a cache write; the route computes, writes the cache and
\* answers at once, the service awaits its generator first
FetchResolves(r) ==
    LET q == inflight[r]
        emissions == userRecords(q.userId)
    IN /\ q.pc = "fetching"
       /\ IF ~dbUp
          THEN /\ inflight' = [inflight EXCEPT ![r] =
                     [q EXCEPT !.pc = "done", !.status = 500]]
               /\ UNCHANGED cache
          ELSE IF Len(emissions) = 0
          THEN /\ inflight' = [inflight EXCEPT ![r] =
                     [q EXCEPT !.pc = "done", !.status = 200]]
               /\ UNCHANGED cache
          ELSE IF q.kind = "route"
          THEN /\ inflight' = [inflight EXCEPT ![r] =
                     [q EXCEPT !.pc = "done", !.status = 200, !.computed = TRUE,
                               !.insights = insightsOf(emissions, now)]]
               /\ cache' = setInsights(q.userId, insightsOf(emissions, now))
          ELSE /\ inflight' = [inflight EXCEPT ![r] =
                     [q EXCEPT !.pc = "computed", !.computed = TRUE,
                               !.insights = insightsOf(emissions, now)]]
               /\ UNCHANGED cache
       /\ UNCHANGED <<userIds, now, lastOp, expect, cleared, limiterVars, call,
                      collection, dbUp, served>>

\* a cache write that adds an entry instead of replacing the key's entry
SetAndReturnAppending(r) ==
    /\ inflight[r].pc = "computed"
    /\ cache' = Append(cache,
                       [key |-> generateKey(inflight[r].userId, Insights, Obj(<<>>)),
                        data |-> inflight[r].insights, timestamp |-> now])
    /\ inflight' = [inflight EXCEPT ![r] =
                       [inflight[r] EXCEPT !.pc = "done", !.status = 200]]
    /\ UNCHANGED <<userIds, now, lastOp, expect, cleared, limiterVars, call,
                   collection, dbUp, served>>

\* this.cache.set(userId, "insights", options, insights); return insights
SetAndReturn(r) ==
    /\ inflight[r].pc = "computed"
    /\ cache' = setInsights(inflight[r].userId, inflight[r].insights)
    /\ inflight' = [inflight EXCEPT ![r] =
                       [inflight[r] EXCEPT !.pc = "done", !.status = 200]]
    /\ UNCHANGED <<userIds, now, lastOp, expect, cleared, limiterVars, call,
                   collection, dbUp, served>>

DoStartInsights ==
    \E r \in 1..MaxInflight, kind \in {"service", "route"}, userId \in AppUserIds :
        StartInsights(r, kind, userId)

DoFetchResolves == \E r \in 1..MaxInflight : FetchResolves(r)

DoSetAndReturn == \E r \in 1..MaxInflight : SetAndReturn(r)

InitConcurrent ==
    /\ userIds = AppUserIds
    /\ now = 0
    /\ InitCache
    /\ InitLimiter
    /\ call = NoCall
    /\ collection \in StoredCollections
    /\ dbUp = TRUE
    /\ served = NoRequest
    /\ inflight = [r \in 1..MaxInflight |-> Idle]

NextConcurrent ==
    \/ DoStartInsights
    \/ DoFetchResolves
    \/ DoSetAndReturn
    \/ StoreFails
    \/ StoreRecovers
    \/ TickServer

SpecConcurrent == InitConcurrent /\ [][NextConcurrent]_vars

\* requests a and b, the only ones for their user, both missed the cache,
\* both recomputed and both have returned
BothRecomputed(a, b) ==
    /\ a # b
    /\ inflight[a].pc = "done" /\ inflight[b].pc = "done"
    /\ inflight[a].userId = inflight[b].userId
    /\ inflight[a].missed /\ inflight[b].missed
    /\ inflight[a].computed /\ inflight[b].computed
    /\ \A r \in 1..MaxInflight \ {a, b} :
           inflight[r].pc = "idle" \/ inflight[r].userId # inflight[a].userId

EntriesFor(userId) ==
    { i \in 1..Len(cache) : cache[i].key = generateKey(userId, Insights, Undefined) }

\* C21 as stated: two interleaved insights requests for the same user that
\* both miss and recompute return the same insights, and the cache ends with
\* exactly one entry for the key, holding that result
ConcurrentMissesSameInsights ==
    \A a, b \in 1..MaxInflight :
        BothRecomputed(a, b) =>
            /\ inflight[a].insights = inflight[b].insights
            /\ Cardinality(EntriesFor(inflight[a].userId)) = 1
            /\ \A i \in EntriesFor(inflight[a].userId) :
                   cache[i].data = inflight[a].insights

\* C21 amended: the two requests return insights with the same totals, which
\* differ at most in generatedAt; the cache ends with exactly one entry for
\* the key, holding the insights of one of the two; and in every state every
\* cached value is one that some request computed
ConcurrentMissesSameTotals ==
    /\ \A a, b \in 1..MaxInflight :
          BothRecomputed(a, b) =>
              /\ inflight[a].insights.totalEmissions = inflight[b].insights.totalEmissions
              /\ inflight[a].insights.totalActivities = inflight[b].insights.totalActivities
              /\ Cardinality(EntriesFor(inflight[a].userId)) = 1
              /\ \A i \in EntriesFor(inflight[a].userId) :
                     cache[i].data \in {inflight[a].insights, inflight[b].insights}
    /\ \A i \in 1..Len(cache) :
          \E r \in 1..MaxInflight :
              /\ inflight[r].pc # "idle"
              /\ inflight[r].computed
              /\ cache[i].data = inflight[r].insights

\* both requests recomputed, at different clock readings
InterleavedMissesSeen ==
    \E a, b \in 1..MaxInflight :
        /\ BothRecomputed(a, b)
        /\ inflight[a].insights.generatedAt # inflight[b].insights.generatedAt


(***************************************************************************)
(* calculateImprovementPatterns of src/routes/analysis.js, called by       *)
(* GET /insights/:userId on the list the store delivered, sorted by        *)
(* timestamp descending; array is that list after the call.                *)
(***************************************************************************)

MaxPatternRecords == 4

\* emissions.length < 4 (src/routes/analysis.js:2271)
MinPatternRecords == 4

\* Array.prototype.sort((a, b) => new Date(a.timestamp) - new Date(b.timestamp)):
\* stable, ascending
RECURSIVE InsertByTimestamp(_, _)
InsertByTimestamp(sorted, e) ==
    IF sorted = <<>> THEN <<e>>
    ELSE IF e.timestamp < Head(sorted).timestamp THEN <<e>> \o sorted
         ELSE <<Head(sorted)>> \o InsertByTimestamp(Tail(sorted), e)

RECURSIVE SortByTimestamp(_)
SortByTimestamp(emissions) ==
    IF emissions = <<>> THEN <<>>
    ELSE InsertByTimestamp(SortByTimestamp(SubSeq(emissions, 1, Len(emissions) - 1)),
                           emissions[Len(emissions)])

\* reduce((sum, e) => sum + e.value, 0) / length
averageValue(emissions) == Over(TotalValue(emissions), Num(Len(emissions)))

improvementTrend(improvement) ==
    IF Less(Zero, improvement) THEN "improving"
    ELSE IF Less(improvement, Zero) THEN "worsening" ELSE "stable"

improvementPercentOf(improvement, firstAvg) ==
    IF Less(Zero, firstAvg) THEN Times(Over(improvement, firstAvg), Num(100)) ELSE Zero

\* categoryImprovements, in the insertion order of its keys
categoryImprovementsOf(categories, firstHalf, secondHalf) ==
    LET inCategory(c, half) == SelectSeq(half, LAMBDA e : e.category = c)
        both == SelectSeq(categories,
                          LAMBDA c : Len(inCategory(c, firstHalf)) > 0 /\ Len(inCategory(c, secondHalf)) > 0)
    IN [i \in 1..Len(both) |->
          LET firstAvg == averageValue(inCategory(both[i], firstHalf))
              secondAvg == averageValue(inCategory(both[i], secondHalf))
              catImprovement == Minus(firstAvg, secondAvg)
          IN [category |-> both[i],
              improvement |-> catImprovement,
              improvementPercent |-> improvementPercentOf(catImprovement, firstAvg),
              trend |-> improvementTrend(catImprovement)]]

\* Object.entries(...).sort(([, a], [, b]) => b.improvementPercent -
\* a.improvementPercent)[0]?.[0] || null: the first entry no other exceeds
bestImprovingCategoryOf(entries) ==
    IF entries = <<>> THEN "null"
    ELSE entries[CHOOSE i \in 1..Len(entries) :
                    /\ \A j \in 1..Len(entries) :
                          ~Less(entries[i].improvementPercent, entries[j].improvementPercent)
                    /\ \A j \in 1..(i - 1) :
                          Less(entries[j].improvementPercent, entries[i].improvementPercent)
                ].category

calculateImprovementPatterns(emissions) ==
    IF Len(emissions) < MinPatternRecords
    THEN [array |-> emissions, out |-> [hasEnoughData |-> FALSE]]
    ELSE LET sortedEmissions == SortByTimestamp(emissions)
             midPoint == Len(sortedEmissions) \div 2
             firstHalf == SubSeq(sortedEmissions, 1, midPoint)
             secondHalf == SubSeq(sortedEmissions, midPoint + 1, Len(sortedEmissions))
             firstHalfAvg == averageValue(firstHalf)
             secondHalfAvg == averageValue(secondHalf)
             improvement == Minus(firstHalfAvg, secondHalfAvg)
             \* emissions is the sorted array by now
             totals == CategoryTotals(sortedEmissions)
             categories == [i \in 1..Len(totals) |-> totals[i].category]
             categoryImprovements ==
                 categoryImprovementsOf(categories, firstHalf, secondHalf)
         IN [array |-> sortedEmissions,
             out |-> [hasEnoughData |-> TRUE,
                      overallImprovement |-> improvement,
                      improvementPercent |-> improvementPercentOf(improvement, firstHalfAvg),
                      trend |-> improvementTrend(improvement),
                      categoryImprovements |-> categoryImprovements,
                      bestImprovingCategory |->
                          bestImprovingCategoryOf(categoryImprovements)]]

\* the lists the accessor delivers: .sort({ timestamp: -1 })
DeliveredRecords ==
    { e \in { [i \in 1..Len(q) |->
                 [timestamp |-> q[i][1], category |-> q[i][2], value |-> Num(q[i][3])]] :
               q \in SeqsUpTo((0..2) \X {"Food", "Transport"} \X {0, 20},
                              MaxPatternRecords) } :
        \A i \in 1..(Len(e) - 1) : e[i].timestamp >= e[i + 1].timestamp }

InitPatterns ==
    /\ userIds = AppUserIds
    /\ now = 0
    /\ InitCache
    /\ InitLimiter
    /\ InitServer
    /\ call \in
         { [fn |-> "calculateImprovementPatterns", done |-> FALSE,
            arg |-> e, array |-> e, out |-> Zero] : e \in DeliveredRecords }

CalculateImprovementPatterns ==
    /\ call.fn = "calculateImprovementPatterns" /\ ~call.done
    /\ Return(calculateImprovementPatterns(call.arg))

NextPatterns == CalculateImprovementPatterns

SpecPatterns == InitPatterns /\ [][NextPatterns]_vars

\* C22: computing improvement patterns over a record list does not modify
\* the list: after the call it has the same elements in the same order,
\* timestamp descending as delivered
GeneratorLeavesListUnchanged ==
    (call.fn = "calculateImprovementPatterns" /\ call.done) => call.array = call.arg

\* what does hold: the list keeps its elements, and lists of fewer than four
\* records keep their order
GeneratorKeepsElements ==
    (call.fn = "calculateImprovementPatterns" /\ call.done) =>
        /\ Len(call.array) = Len(call.arg)
        /\ \A e \in Range(call.arg) :
              Cardinality({ i \in 1..Len(call.arg) : call.arg[i] = e }) =
              Cardinality({ i \in 1..Len(call.array) : call.array[i] = e })
        /\ Len(call.arg) < MinPatternRecords => call.array = call.arg


(***************************************************************************)
(* AnalysisCache over arbitrary user-id strings: the class takes any       *)
(* string as userId, and one id may be the beginning of another ("u1" and  *)
(* "u10").                                                                 *)
(***************************************************************************)

PrefixUserIds == { <<"u1">>, <<"u1", "0">> }

InitPrefixIds ==
    /\ userIds = PrefixUserIds
    /\ now = 0
    /\ InitCache
    /\ InitLimiter
    /\ InitServer
    /\ call = NoCall

SpecPrefixIds == InitPrefixIds /\ [][Next]_vars

\* the entries stored for user v are the same before and after the step
KeepsEntriesOf(v) ==
    \A t \in Types, p \in ParamValues :
        LET key == generateKey(v, t, p)
        IN MapHas(cache, key) =>
              /\ MapHas(cache', key)
              /\ MapGet(cache', key) = MapGet(cache, key)

\* C23: clear(u) leaves every entry stored for any other user v # u
\* unchanged, for all user-id strings, also when u is a proper prefix of v
ClearLeavesOthers ==
    [][ lastOp'.op = "clear" =>
          \A v \in userIds \ {lastOp'.userId} : KeepsEntriesOf(v) ]_vars

\* what does hold: clear(u) leaves the entries of every user whose id does
\* not begin with u
ClearLeavesUnprefixed ==
    [][ lastOp'.op = "clear" =>
          \A v \in userIds :
              ~StartsWith(v, lastOp'.userId) => KeepsEntriesOf(v) ]_vars


(***************************************************************************)
(* Cache keys over arbitrary id and type strings: a set on a new           *)
(* AnalysisCache followed at once by a get, for ids and types that may     *)
(* contain the "-" that generateKey puts between them.                     *)
(***************************************************************************)

KeyUserIds == { <<"a">>, <<"a", "-", "b">>, <<"64a1">> }

KeyTypes == { <<"insights">>, <<"b", "-", "insights">>, <<"quick", "-", "stats">> }

\* cache.set(u1, t1, params, data) on an empty cache, then
\* cache.get(u2, t2, params) at the same clock reading
setThenGet(u1, t1, u2, t2, params, data) ==
    LET stored == MapSet(<<>>, generateKey(u1, t1, params), data, 0)
        key == generateKey(u2, t2, params)
    IN IF MapHas(stored, key) /\ Fresh(MapGet(stored, key), 0)
       THEN MapGet(stored, key).data
       ELSE Null

InitKeys ==
    /\ userIds = KeyUserIds
    /\ now = 0
    /\ InitCache
    /\ InitLimiter
    /\ InitServer
    /\ call \in
         { [fn |-> "setThenGet", done |-> FALSE,
            arg |-> [u1 |-> u1, t1 |-> t1, u2 |-> u2, t2 |-> t2, params |-> p],
            array |-> Missing, out |-> Zero] :
             u1 \in KeyUserIds, t1 \in KeyTypes, u2 \in KeyUserIds, t2 \in KeyTypes,
             p \in ParamValues }

SetThenGet ==
    /\ call.fn = "setThenGet" /\ ~call.done
    /\ Return([array |-> Missing,
               out |-> setThenGet(call.arg.u1, call.arg.t1, call.arg.u2, call.arg.t2,
                                  call.arg.params, "v1")])

NextKeys == SetThenGet

SpecKeys == InitKeys /\ [][NextKeys]_vars

\* C24: two different (userId, type) pairs never map to the same cache key
\* for the same params, so a value stored by set(u1,t1,p,v) is never returned
\* by get(u2,t2,p) with (u2,t2) # (u1,t1), also for ids and types that
\* contain the "-" separator
KeysInjective ==
    (call.fn = "setThenGet" /\ call.done
       /\ <<call.arg.u1, call.arg.t1>> # <<call.arg.u2, call.arg.t2>>) =>
        /\ generateKey(call.arg.u1, call.arg.t1, call.arg.params)
             # generateKey(call.arg.u2, call.arg.t2, call.arg.params)
        /\ call.out = Null

HasDash(s) == \E i \in 1..Len(s) : s[i] = "-"

\* what does hold: the keys differ when neither user id contains a "-"
KeysInjectiveDashFreeIds ==
    (call.fn = "setThenGet" /\ call.done
       /\ <<call.arg.u1, call.arg.t1>> # <<call.arg.u2, call.arg.t2>>
       /\ ~HasDash(call.arg.u1) /\ ~HasDash(call.arg.u2)) =>
        /\ generateKey(call.arg.u1, call.arg.t1, call.arg.params)
             # generateKey(call.arg.u2, call.arg.t2, call.arg.params)
        /\ call.out = Null


\* C25: a failure result is never cached: after a store error in
\* calculateQuickStats or calculateWeeklyComparison nothing is written to
\* analysisCache, and a quick-stats request made while the store answers is
\* never given a failure object marked fromCache
FailureNeverCached ==
    /\ \A i \in 1..Len(cache) :
          ~cache[i].data.error /\ ~cache[i].data.weeklyComparison.error
    /\ (served.route = "GET /quick-stats" /\ served.status = 200 /\ served.storeUp)
          => ~(served.body.fromCache /\ served.body.error)


(***************************************************************************)
(* Writes next to cached reads: POST /api/emissions, DELETE /:emissionId   *)
(* and DELETE /:userId/all of src/routes/emissions.js together with the    *)
(* cached GET /quick-stats/:userId.  An emission's _id is its place in the *)
(* collection.                                                             *)
(***************************************************************************)

\* router.delete("/:emissionId", authenticateToken, ...)
DeleteEmission(emissionId, user) ==
    /\ IF ~dbUp
       THEN /\ Respond("DELETE /:emissionId", user, TRUE, 500,
                       [message |-> "Server error deleting emission"])
            /\ UNCHANGED collection
       ELSE IF ~(emissionId \in 1..Len(collection))
       THEN /\ Respond("DELETE /:emissionId", user, FALSE, 404,
                       [message |-> "Emission not found"])
            /\ UNCHANGED collection
       ELSE IF collection[emissionId].userId # user
       THEN /\ Respond("DELETE /:emissionId", user, FALSE, 403,
                       [message |-> "Cannot delete another user's emission"])
            /\ UNCHANGED collection
       ELSE /\ collection' = RemoveAt(collection, emissionId)
            /\ Respond("DELETE /:emissionId", user, FALSE, 200,
                       [message |-> "Emission deleted successfully"])
    /\ UNCHANGED <<userIds, now, cacheVars, limiterVars, call, dbUp, inflight>>

\* router.delete("/:userId/all", authenticateToken, ...)
DeleteAll(userId, user) ==
    /\ IF userId # user
       THEN /\ Respond("DELETE /:userId/all", userId, FALSE, 403,
                       [message |-> "Cannot delete another user's emissions"])
            /\ UNCHANGED collection
       ELSE IF ~dbUp
       THEN /\ Respond("DELETE /:userId/all", userId, TRUE, 500,
                       [message |-> "Server error clearing emissions"])
            /\ UNCHANGED collection
       ELSE /\ collection' = SelectSeq(collection, LAMBDA e : e.userId # userId)
            /\ Respond("DELETE /:userId/all", userId, FALSE, 200,
                       [message |-> "All emissions cleared successfully",
                        deletedCount |-> Len(userRecords(userId))])
    /\ UNCHANGED <<userIds, now, cacheVars, limiterVars, call, dbUp, inflight>>

\* a complete request body with a plain numeric value
DoPostNumber ==
    \E body \in { b \in PostBodies :
                    b.hasCategory /\ b.hasActivity /\ b.value = NumberValue(Num(20)) },
       user \in AppUserIds :
        PostEmission(body, user)

DoDeleteEmission ==
    \E emissionId \in 1..MaxStored, user \in AppUserIds : DeleteEmission(emissionId, user)

DoDeleteAll == \E userId \in AppUserIds, user \in AppUserIds : DeleteAll(userId, user)

NextCoherence ==
    DoPostNumber \/ DoDeleteEmission \/ DoDeleteAll \/ DoGetQuickStats \/ TickServer

SpecCoherence == InitStore /\ [][NextCoherence]_vars

\* the step is a quick-stats request answered with statistics
QuickStatsAnswered ==
    /\ served'.route = "GET /quick-stats"
    /\ served'.status = 200
    /\ collection' = collection
    /\ now' = now

\* C26: after a successful POST or DELETE for user u the next quick-stats
\* (or insights) response for u is computed from records that include the
\* change: every response shows the totals of the records stored at the time
\* of the request, never those of a cache entry created before the change
CacheCoherentWithWrites ==
    [][ QuickStatsAnswered =>
          /\ served'.body.totalActivities = Len(userRecords(served'.userId))
          /\ served'.body.totalEmissions = TotalValue(userRecords(served'.userId))
      ]_vars

\* what does hold: a response that is not from the cache shows the records
\* stored at the time of the request
FreshResponseCoherent ==
    [][ (QuickStatsAnswered /\ ~served'.body.fromCache) =>
          /\ served'.body.totalActivities = Len(userRecords(served'.userId))
          /\ served'.body.totalEmissions = TotalValue(userRecords(served'.userId))
      ]_vars


TrendAgreesOf(r) ==
    /\ r.trend = "increasing" => Less(Zero, r.percentage)
    /\ r.trend = "decreasing" => Less(r.percentage, Zero)
    /\ r.trend = "stable" => r.percentage = Zero

\* a finished comparison that labels its trend by the sign of the change
SignTrendCall ==
    /\ call.fn \in {"calculateWeeklyTrend", "calculateTimePeriodComparisons"}
    /\ call.done

\* C27: in every period comparison the trend label and the percentage agree:
\* "increasing" only if changePercentage > 0, "decreasing" only if
\* changePercentage < 0, "stable" only if changePercentage = 0, also when the
\* previous total is 0 and the current total is positive
TrendAgreesWithPercentage == SignTrendCall => TrendAgreesOf(WeeklyReport)

\* what does hold: label and percentage agree when the previous total is
\* positive
TrendAgreesOnPositiveBaseline ==
    (SignTrendCall /\ Less(Zero, WeeklyReport.previous)) => TrendAgreesOf(WeeklyReport)

\* label and percentage disagree on records that are all valid: nothing last
\* week, a positive total this week
FirstWeekDisagreementSeen ==
    /\ SignTrendCall
    /\ WeeklyReport.previous = Zero
    /\ Less(Zero, WeeklyReport.current)
    /\ \A i \in 1..Len(call.arg.emissions) : LessEq(Zero, call.arg.emissions[i].value)
    /\ WeeklyReport.trend = "increasing"
    /\ WeeklyReport.percentage = Zero


----------------------------------------------------------------------------
(* analysisMiddleware *)

MaxMiddlewareCalls == 3

\* the requests the middleware has let through to the limiter so far
LimiterCalls ==
    LET RECURSIVE sum(_)
        sum(S) == IF S = {} THEN 0
                  ELSE LET v == CHOOSE x \in S : TRUE
                       IN Len(log[v]) + sum(S \ {v})
    IN sum(userIds)

\* the :userId segments a client can put in the path: the users' ids and a
\* string that is no ObjectId
PathUserIds == AppUserIds \cup { <<"me">> }

\* ObjectId.isValid(req.params.userId)
ObjectIdIsValid(id) == id \in AppUserIds

\* validateAnalysisRequest(req), for a request without query parameters
validateAnalysisRequest(pathUserId) ==
    [isValid |-> ObjectIdIsValid(pathUserId)]

\* req.params.userId || req.user?.id
rateLimitKey(pathUserId, user) == IF pathUserId # <<>> THEN pathUserId ELSE user

Answer(pathUserId, user, status) ==
    served' = [route |-> "analysisMiddleware", userId |-> pathUserId,
               user |-> user, status |-> status]

\* the chain validateRequest, checkRateLimit, checkUserAccess for a request
\* of the authenticated user to a route /:userId; status "next" hands the
\* request to the route handler
analysisMiddleware(pathUserId, user) ==
    /\ LimiterCalls < MaxMiddlewareCalls
    /\ IF ~validateAnalysisRequest(pathUserId).isValid
       THEN /\ Answer(pathUserId, user, "400")
            /\ UNCHANGED <<requests, log>>
       ELSE LET r == isAllowed(requests, rateLimitKey(pathUserId, user), now)
                status == IF ~r.ret THEN "429"
                          ELSE IF pathUserId # user THEN "403"
                          ELSE "next"
            IN /\ requests' = r.map
               /\ Answer(pathUserId, user, status)
               /\ log' = [log EXCEPT ![user] = Append(@,
                             [at |-> now, ret |-> status = "next",
                              path |-> pathUserId, counted |-> r.ret])]
    /\ UNCHANGED <<userIds, now, cacheVars, shadow, lastCall, call,
                   collection, dbUp, inflight>>

DoAnalysisMiddleware ==
    \E p \in PathUserIds, u \in userIds : analysisMiddleware(p, u)

NextMiddleware == DoAnalysisMiddleware \/ Cleanup \/ TickLimiter

SpecMiddleware == InitStore /\ [][NextMiddleware]_vars

\* the timestamps under a user that still count against the budget
RecordedInWindow(u) == Len(ValidRequests(UserRequests(requests, u), now))

\* the user's own requests of the window that reached the handler
OwnAllowedInWindow(u) ==
    Len(SelectSeq(log[u], LAMBDA e : e.ret /\ now - e.at < WindowMs))

\* the requests of the window, by anyone, that the limiter counted under u
CountedInWindow(u) ==
    LET counted(v) == Len(SelectSeq(log[v], LAMBDA e :
                          e.counted /\ e.path = u /\ now - e.at < WindowMs))
        RECURSIVE sum(_)
        sum(S) == IF S = {} THEN 0
                  ELSE LET v == CHOOSE x \in S : TRUE
                       IN counted(v) + sum(S \ {v})
    IN sum(userIds)

ForeignRequest ==
    /\ served.route = "analysisMiddleware"
    /\ ObjectIdIsValid(served.userId)
    /\ served.userId # served.user

\* C29: a request by authenticated user A whose path names another user B
\* is rejected with 403 and consumes none of B's rate-limit budget: for
\* every user B the timestamps recorded under B in the window are as many as
\* B's own allowed requests in the window
BudgetIsolation ==
    /\ ForeignRequest => served.status = "403"
    /\ \A u \in userIds : RecordedInWindow(u) = OwnAllowedInWindow(u)

\* what does hold: the budget is charged to the user named in the path,
\* whoever sent the request, and a foreign request never reaches the handler
BudgetChargedToPath ==
    /\ ForeignRequest => served.status \in {"403", "429"}
    /\ \A u \in userIds : RecordedInWindow(u) = CountedInWindow(u)

\* a user who sent nothing is locked out by the requests of another user
LockedOutByOthersSeen ==
    \E u \in userIds :
        /\ log[u] = <<>>
        /\ RecordedInWindow(u) = MaxRequests
        /\ ForeignRequest /\ served.userId = u /\ served.status = "429"


----------------------------------------------------------------------------
(* The emissions router *)

Literal(name) == [param |-> FALSE, name |-> <<name>>]

Param(name) == [param |-> TRUE, name |-> <<name>>]

\* the routes of the router, in the order in which they are registered
Routes ==
    << [method |-> "POST", path |-> <<>>, handler |-> "POST /"],
       [method |-> "GET", path |-> <<Literal("user-totals")>>,
        handler |-> "GET /user-totals"],
       [method |-> "GET", path |-> <<Param("userId")>>,
        handler |-> "GET /:userId"],
       [method |-> "GET", path |-> <<Param("userId"), Literal("summary")>>,
        handler |-> "GET /:userId/summary"],
       [method |-> "DELETE", path |-> <<Param("emissionId")>>,
        handler |-> "DELETE /:emissionId"],
       [method |-> "DELETE", path |-> <<Param("userId"), Literal("all")>>,
        handler |-> "DELETE /:userId/all"],
       [method |-> "GET", path |-> <<Literal("leaderboard")>>,
        handler |-> "GET /leaderboard"] >>

\* a route matches a request of its method whose path has as many segments,
\* equal to the route's where the route's segment is no parameter
matches(route, method, path) ==
    /\ route.method = method
    /\ Len(route.path) = Len(path)
    /\ \A i \in 1..Len(path) : route.path[i].param \/ route.path[i].name = path[i]

\* express runs the first registered route that matches; 0 when none does
dispatch(method, path) ==
    IF \E i \in 1..Len(Routes) : matches(Routes[i], method, path)
    THEN CHOOSE i \in 1..Len(Routes) :
             /\ matches(Routes[i], method, path)
             /\ \A j \in 1..(i - 1) : ~matches(Routes[j], method, path)
    ELSE 0

\* the paths of the GET requests: a user's list and the leaderboard
GetPaths == { <<u>> : u \in AppUserIds } \cup { << <<"leaderboard">> >> }

Reply(handler, path, user, status, body) ==
    served' = [route |-> handler, path |-> path, user |-> user,
               storeUp |-> dbUp, records |-> collection, status |-> status,
               body |-> body]

\* .sort({ timestamp: -1 }): most recent first
RECURSIVE InsertNewestFirst(_, _)
InsertNewestFirst(sorted, e) ==
    IF sorted = <<>> THEN <<e>>
    ELSE IF e.timestamp > Head(sorted).timestamp THEN <<e>> \o sorted
         ELSE <<Head(sorted)>> \o InsertNewestFirst(Tail(sorted), e)

RECURSIVE SortNewestFirst(_)
SortNewestFirst(emissions) ==
    IF emissions = <<>> THEN <<>>
    ELSE InsertNewestFirst(SortNewestFirst(SubSeq(emissions, 1, Len(emissions) - 1)),
                           emissions[Len(emissions)])

\* router.get("/:userId", authenticateToken, ...)
GetUserEmissions(path, userId, user) ==
    IF userId # user
    THEN Reply("GET /:userId", path, user, 403,
               [message |-> "Cannot access another user's emissions"])
    ELSE IF ~dbUp
    THEN Reply("GET /:userId", path, user, 500,
               [message |-> "Server error retrieving emissions"])
    ELSE LET emissions == SortNewestFirst(userRecords(userId))
         IN Reply("GET /:userId", path, user, 200,
                  [message |-> "Emissions retrieved successfully",
                   emissions |-> emissions,
                   totalEmissions |-> TotalValue(emissions),
                   count |-> Len(emissions)])

\* { $round: ["$totalEmissions", 2] }: two decimals, halves to the even digit
round2(x) ==
    IF ~Finite(x) \/ x.den = 1 THEN x
    ELSE LET q == (100 * x.num) \div x.den
             r == (100 * x.num) % x.den
             up == 2 * r > x.den \/ (2 * r = x.den /\ q % 2 = 1)
         IN Frac(IF up THEN q + 1 ELSE q, 100)

\* $group by userId and $match totalEmissions > 0
leaderboardGroups(records) ==
    { [userId |-> u,
       totalEmissions |-> TotalValue(SelectSeq(records, LAMBDA e : e.userId = u)),
       activityCount |-> Len(SelectSeq(records, LAMBDA e : e.userId = u))] :
        u \in { v \in { records[i].userId : i \in 1..Len(records) } :
                  Less(Zero, TotalValue(SelectSeq(records, LAMBDA e : e.userId = v))) } }

\* $sort: { totalEmissions: 1 } and $project: every order of the groups with
\* the lowest total first (the order of equal totals is the store's), each
\* total then rounded
leaderboards(records) ==
    LET groups == leaderboardGroups(records)
        n == Cardinality(groups)
        sorted == { board \in [1..n -> groups] :
                      /\ \A i, j \in 1..n : i # j => board[i] # board[j]
                      /\ \A i, j \in 1..n :
                             i < j => LessEq(board[i].totalEmissions,
                                             board[j].totalEmissions) }
    IN { [i \in 1..n |-> [board[i] EXCEPT !.totalEmissions = round2(@)]] :
           board \in sorted }

\* router.get("/leaderboard", authenticateToken, ...)
GetLeaderboard(path, user) ==
    IF ~dbUp
    THEN Reply("GET /leaderboard", path, user, 500,
               [success |-> FALSE, message |-> "Error getting leaderboard data"])
    ELSE IF Len(collection) = 0
    THEN Reply("GET /leaderboard", path, user, 200,
               [success |-> TRUE, leaderboard |-> <<>>])
    ELSE \E board \in leaderboards(collection) :
             Reply("GET /leaderboard", path, user, 200,
                   [success |-> TRUE, leaderboard |-> board])

\* an authenticated GET request to the router
GetRequest(path, user) ==
    LET i == dispatch("GET", path)
    IN /\ i # 0
       /\ CASE Routes[i].handler = "GET /:userId" ->
                   GetUserEmissions(path, path[1], user)
            [] Routes[i].handler = "GET /leaderboard" ->
                   GetLeaderboard(path, user)
       /\ UNCHANGED <<userIds, now, cacheVars, limiterVars, call, collection,
                      dbUp, inflight>>

DoGetRequest == \E path \in GetPaths, user \in AppUserIds : GetRequest(path, user)

NextRouter == DoGetRequest \/ DoPostEmission \/ StoreFails \/ StoreRecovers

SpecRouter == InitStore /\ [][NextRouter]_vars

LeaderboardRequest ==
    /\ served.route \in { Routes[i].handler : i \in 1..Len(Routes) }
    /\ served.route # "POST /"
    /\ served.path = << <<"leaderboard">> >>

\* C30: an authenticated GET /api/emissions/leaderboard is handled by the
\* leaderboard handler and answers with success and the leaderboard list
\* (users sorted by lowest total emissions); the earlier GET /:userId
\* handler does not capture it
LeaderboardDispatched ==
    (LeaderboardRequest /\ served.storeUp) =>
        /\ served.route = "GET /leaderboard"
        /\ served.status = 200
        /\ served.body.success
        /\ \/ served.records = <<>> /\ served.body.leaderboard = <<>>
           \/ served.body.leaderboard \in leaderboards(served.records)

\* what the router does with the request: GET /:userId takes it with
\* userId = "leaderboard" and refuses it
LeaderboardCaptured ==
    LeaderboardRequest =>
        /\ served.route = "GET /:userId"
        /\ served.status = 403

LeaderboardRefusedSeen ==
    /\ LeaderboardRequest
    /\ served.storeUp
    /\ served.records # <<>>
    /\ served.status = 403


----------------------------------------------------------------------------
(* calculateMonthlyTrend *)

MaxMonthRecords == 2

\* the days of a calendar month, scaled; every month is as long
MonthDays == 2

\* the months the report covers: for (let i = 0; i < 6; i++)
ReportMonths == 6

\* the month, counted from the epoch, that holds an instant
monthIndexOf(t) == t \div (MonthDays * DayMs)

\* new Date(year, month, 1): the first instant of the month
firstOfMonth(month) == month * MonthDays * DayMs

\* new Date(year, month + 1, 0): midnight at the start of the month's last day
lastDayOfMonth(month) == firstOfMonth(month + 1) - DayMs

\* emissions.filter((e) => date >= monthStart && date <= monthEnd)
monthEmissionsOf(emissions, monthStart, monthEnd) ==
    SelectSeq(emissions, LAMBDA e : e.timestamp >= monthStart /\ e.timestamp <= monthEnd)

\* months, after the six unshift calls: the oldest month first
monthBuckets(emissions, nowAt) ==
    [k \in 1..ReportMonths |->
        LET month == monthIndexOf(nowAt) - (ReportMonths - k)
            monthEmissions == monthEmissionsOf(emissions, firstOfMonth(month),
                                               lastDayOfMonth(month))
            monthTotal == TotalValue(monthEmissions)
        IN [month |-> month,
            total |-> monthTotal,
            activities |-> Len(monthEmissions),
            average |-> IF Len(monthEmissions) > 0
                        THEN Over(monthTotal, Num(Len(monthEmissions)))
                        ELSE Zero]]

calculateMonthlyTrend(emissions, nowAt) ==
    LET months == monthBuckets(emissions, nowAt)
    IN [index \in 1..ReportMonths |->
          IF index = 1
          THEN [month |-> months[index].month, total |-> months[index].total,
                activities |-> months[index].activities,
                average |-> months[index].average,
                change |-> Zero, changePercent |-> Zero, trend |-> "undefined"]
          ELSE LET change == Minus(months[index].total, months[index - 1].total)
               IN [month |-> months[index].month, total |-> months[index].total,
                   activities |-> months[index].activities,
                   average |-> months[index].average,
                   change |-> change,
                   changePercent |-> changePercentageOf(change, months[index - 1].total),
                   trend |-> changeTrend(change)]]

\* the instants of the current month, the seventh from the epoch
MonthNows == firstOfMonth(ReportMonths)..(firstOfMonth(ReportMonths + 1) - 1)

\* the instants of the six months, one before them and one after
MonthStamps == (firstOfMonth(1) - 1)..firstOfMonth(ReportMonths + 1)

MonthRecords ==
    SeqsUpTo({ [timestamp |-> t, value |-> v] :
                 t \in MonthStamps, v \in { Num(5), Num(20) } }, MaxMonthRecords)

InitMonthly ==
    /\ userIds = AppUserIds
    /\ now = 0
    /\ InitCache
    /\ InitLimiter
    /\ InitServer
    /\ call \in
         { [fn |-> "calculateMonthlyTrend", done |-> FALSE,
            arg |-> [emissions |-> e, nowAt |-> t],
            array |-> Missing, out |-> <<>>] :
             e \in MonthRecords, t \in MonthNows }

CalculateMonthlyTrend ==
    /\ call.fn = "calculateMonthlyTrend" /\ ~call.done
    /\ Return([array |-> Missing,
               out |-> calculateMonthlyTrend(call.arg.emissions, call.arg.nowAt)])

NextMonthly == CalculateMonthlyTrend

SpecMonthly == InitMonthly /\ [][NextMonthly]_vars

MonthlyCall == call.fn = "calculateMonthlyTrend" /\ call.done

\* the records from the first instant of the month five months ago to the
\* last instant of the current month
inSixMonths(emissions, nowAt) ==
    SelectSeq(emissions, LAMBDA e :
        /\ e.timestamp >= firstOfMonth(monthIndexOf(nowAt) - (ReportMonths - 1))
        /\ e.timestamp < firstOfMonth(monthIndexOf(nowAt) + 1))

RECURSIVE sumOfTotals(_)
sumOfTotals(trends) ==
    IF trends = <<>> THEN Zero
    ELSE Plus(sumOfTotals(SubSeq(trends, 1, Len(trends) - 1)),
              trends[Len(trends)].total)

RECURSIVE sumOfActivities(_)
sumOfActivities(trends) ==
    IF trends = <<>> THEN 0
    ELSE sumOfActivities(SubSeq(trends, 1, Len(trends) - 1))
           + trends[Len(trends)].activities

\* C28: the monthly buckets partition the last six calendar months: every
\* record stamped between the first instant of the month five months ago and
\* the last instant of the current month, the last day of a month included,
\* is counted in exactly one of the six month totals, so the six totals sum
\* to the total of those records
MonthlyBucketsPartition ==
    MonthlyCall =>
        LET covered == inSixMonths(call.arg.emissions, call.arg.nowAt)
        IN /\ sumOfActivities(call.out) = Len(covered)
           /\ sumOfTotals(call.out) = TotalValue(covered)

\* a record stamped after midnight on the last day of its month
onLastDay(e) == e.timestamp > lastDayOfMonth(monthIndexOf(e.timestamp))

\* what does hold: no record is counted twice, none outside the six months
\* is counted, and the totals add up when no record is stamped after
\* midnight on the last day of a month
MonthlyBucketsUpToLastDay ==
    MonthlyCall =>
        LET covered == inSixMonths(call.arg.emissions, call.arg.nowAt)
            early == SelectSeq(covered, LAMBDA e : ~onLastDay(e))
        IN /\ sumOfActivities(call.out) = Len(early)
           /\ sumOfTotals(call.out) = TotalValue(early)

LastDayRecordDroppedSeen ==
    /\ MonthlyCall
    /\ Len(call.arg.emissions) = 1
    /\ Len(inSixMonths(call.arg.emissions, call.arg.nowAt)) = 1
    /\ onLastDay(call.arg.emissions[1])
    /\ sumOfActivities(call.out) = 0

====
